---- MODULE Spec2Model ----
(***************************************************************************)
(* Knowledge-graph memory server (src/src/index.ts).                       *)
(*                                                                         *)
(* The state is the content of the Kuzu database behind the single         *)
(* connection of KnowledgeGraphManager: three node tables (Entity,         *)
(* Observation, Tag) and four relationship tables (HAS_OBSERVATION,        *)
(* RELATED_TO, ENTITY_TAGGED_WITH, OBSERVATION_TAGGED_WITH).  Every        *)
(* Cypher statement of the manager is an operator on that content, every   *)
(* method of the manager is the sequence of its statements, and every tool *)
(* of the CallTool handler is an action that runs one method to its end.   *)
(*                                                                         *)
(* Strings are sequences of one-character strings, so that the quoting     *)
(* the manager applies before it splices a value into a statement, and     *)
(* the reading of that literal by the engine, are computed and not         *)
(* assumed.  The inputs range over strings without a backslash.            *)
(***************************************************************************)
EXTENDS Naturals, Sequences, FiniteSets, TLC

VARIABLES
    db,     \* the stored graph: node tables, relationship tables, SERIAL counter
    last,   \* the tool call being answered: tool, arguments, graph before, result
    items,  \* number of list items submitted so far (bounds the exploration)
    proc,   \* the process: how far main() got, close() calls, exit status
    inflight \* handlers suspended at an await, and the statements run so far

vars == <<db, last, items, proc, inflight>>

----------------------------------------------------------------------------
(* Bounds and input alphabets *)

\* Total number of items that the calls of one behaviour submit: an entity
\* and each observation or tag listed in it, a relation, a tag, an entity
\* name to delete, a content to add or delete, a tag name to link or unlink.
MaxItems == 5

\* Longest list a call carries, at the top level and nested.
MaxLen == 2

Q == "'"
BS == "\\"

Names == {<<"A">>, <<"B", Q>>}
EntityTypes == {<<"p">>, <<"q">>}
Contents == {<<"x">>, <<Q, "y">>}
TagNames == {<<"t">>, <<"u">>}
RelationTypes == {<<"r">>, <<"s">>}

----------------------------------------------------------------------------
(* Strings spliced into statements *)

\* value.replace(/'/g, "\\'")
RECURSIVE Escape(_)
Escape(s) ==
    IF s = <<>> THEN <<>>
    ELSE (IF Head(s) = Q THEN <<BS, Q>> ELSE <<Head(s)>>) \o Escape(Tail(s))

\* The value the engine reads from the body of a quoted literal: a backslash
\* makes the next character literal.
RECURSIVE Unescape(_)
Unescape(t) ==
    IF t = <<>> THEN <<>>
    ELSE IF Head(t) = BS /\ Len(t) >= 2
         THEN <<t[2]>> \o Unescape(Tail(Tail(t)))
         ELSE <<Head(t)>> \o Unescape(Tail(t))

\* '${escaped}' as the engine sees it.
Literal(s) == Unescape(Escape(s))

\* toLowerCase() of the handler and LOWER() of the engine, on one character
LowerChar(c) ==
    CASE c = "A" -> "a"
      [] c = "B" -> "b"
      [] c = "X" -> "x"
      [] OTHER   -> c

Lower(s) == [i \in 1..Len(s) |-> LowerChar(s[i])]

\* s CONTAINS q
Contains(s, q) ==
    \E i \in 0..(Len(s) - Len(q)) : \A j \in 1..Len(q) : s[i + j] = q[j]

\* The characters in use, in code-point order.
Chars == <<Q, "A", "B", "X", "a", "b", "c", "d", "p", "q", "r", "s", "t", "u",
           "x", "y">>

Code(c) == CHOOSE i \in 1..Len(Chars) : Chars[i] = c

\* s < t in the order of ORDER BY on strings
RECURSIVE Precedes(_, _)
Precedes(s, t) ==
    IF t = <<>> THEN FALSE
    ELSE IF s = <<>> THEN TRUE
    ELSE IF Head(s) = Head(t) THEN Precedes(Tail(s), Tail(t))
    ELSE Code(Head(s)) < Code(Head(t))

----------------------------------------------------------------------------
(* Relationship tables: multisets of edges (the tables are MANY_MANY and    *)
(* hold no uniqueness constraint), kept as functions edge -> copies > 0.    *)

NoEdges == [e \in {} |-> 0]

Copies(B, e) == IF e \in DOMAIN B THEN B[e] ELSE 0

\* CREATE of one edge per matched row; R gives the rows per edge.
AddEdges(B, R) ==
    [e \in DOMAIN B \cup DOMAIN R |-> Copies(B, e) + Copies(R, e)]

\* DELETE of every edge outside Keep.
KeepEdges(B, Keep) == [e \in DOMAIN B \cap Keep |-> B[e]]

\* One row per element of S.
Rows(S) == [e \in S |-> 1]

----------------------------------------------------------------------------
(* The database after initialize() on a new file *)

EmptyDb ==
    [ Entity                  |-> {},
      Observation             |-> {},
      Tag                     |-> {},
      HAS_OBSERVATION         |-> NoEdges,
      RELATED_TO              |-> NoEdges,
      ENTITY_TAGGED_WITH      |-> NoEdges,
      OBSERVATION_TAGGED_WITH |-> NoEdges,
      serial                  |-> 0 ]

----------------------------------------------------------------------------
(* Statements shared by several methods *)

\* MATCH (e:Entity {name: $name}) RETURN e.name
MatchEntity(d, name) == {e \in d.Entity : e.name = name}

\* MATCH (t:Tag {name: $name}) RETURN t.name
MatchTag(d, name) == {t \in d.Tag : t.name = name}

\* (o:Observation {content: $content})
MatchObservation(d, content) == {o \in d.Observation : o.content = content}

\* CREATE (o:Observation {content: $content}); id is SERIAL
CreateObservation(d, content) ==
    [d EXCEPT !.Observation = @ \cup {[id |-> d.serial, content |-> content]},
              !.serial = @ + 1]

\* CREATE (t:Tag {name: $name, category: '', description: ''})
CreateTag(d, name, category, description) ==
    [d EXCEPT !.Tag = @ \cup {[name |-> name, category |-> category,
                               description |-> description]}]

\* The entities that own observation id.
Owners(d, id) == {e[1] : e \in {x \in DOMAIN d.HAS_OBSERVATION : x[2] = id}}

\* (e:Entity {name})-[:HAS_OBSERVATION]->(o:Observation {content}): one row
\* per edge.
OwnedRows(d, name, content) ==
    [id \in {o.id : o \in {x \in MatchObservation(d, content) :
                              <<name, x.id>> \in DOMAIN d.HAS_OBSERVATION}}
        |-> d.HAS_OBSERVATION[<<name, id>>]]

----------------------------------------------------------------------------
(* createEntities *)

\* MATCH (e:Entity {name: $entityName}), (o:Observation {content: $content})
\* CREATE (e)-[:HAS_OBSERVATION]->(o)
LinkObservation(d, name, content) ==
    [d EXCEPT !.HAS_OBSERVATION =
        AddEdges(@, Rows({<<e.name, o.id>> : e \in MatchEntity(d, name),
                                             o \in MatchObservation(d, content)}))]

\* for (const observation of entity.observations): create the node, then link
RECURSIVE AddEntityObservations(_, _, _)
AddEntityObservations(d, name, observations) ==
    IF observations = <<>> THEN d
    ELSE AddEntityObservations(
             LinkObservation(CreateObservation(d, Head(observations)),
                             name, Head(observations)),
             name, Tail(observations))

\* MATCH (e:Entity {name: $entityName}), (t:Tag {name: $tagName})
\* CREATE (e)-[:ENTITY_TAGGED_WITH]->(t)
LinkEntityTag(d, name, tagName) ==
    [d EXCEPT !.ENTITY_TAGGED_WITH =
        AddEdges(@, Rows({<<e.name, t.name>> : e \in MatchEntity(d, name),
                                               t \in MatchTag(d, tagName)}))]

\* for (const tagName of entity.tags): create the tag if absent, then link
RECURSIVE AddEntityTags(_, _, _)
AddEntityTags(d, name, tags) ==
    IF tags = <<>> THEN d
    ELSE LET tagName == Head(tags)
             d1 == IF MatchTag(d, tagName) = {}
                   THEN CreateTag(d, tagName, <<>>, <<>>) ELSE d
         IN AddEntityTags(LinkEntityTag(d1, name, tagName), name, Tail(tags))

\* Mutant: the name check is skipped.
EntityIsNew_Always(d, name) == TRUE

\* MATCH (e:Entity {name: $name}) RETURN e.name; getNumTuples() === 0
EntityIsNew(d, name) == MatchEntity(d, name) = {}

\* CREATE (e:Entity {name: $name, entityType: $entityType})
CreateEntity(d, name, entityType) ==
    [d EXCEPT !.Entity = @ \cup {[name |-> name, entityType |-> entityType]}]

\* The loop of createEntities; acc is newEntities.
RECURSIVE createEntitiesLoop(_, _, _)
createEntitiesLoop(d, entities, acc) ==
    IF entities = <<>> THEN [db |-> d, result |-> acc, error |-> "none"]
    ELSE LET entity == Head(entities) IN
         IF EntityIsNew(d, entity.name)
         THEN createEntitiesLoop(
                  AddEntityTags(
                      AddEntityObservations(
                          CreateEntity(d, entity.name, entity.entityType),
                          entity.name, entity.observations),
                      entity.name, entity.tags),
                  Tail(entities), Append(acc, entity))
         ELSE createEntitiesLoop(d, Tail(entities), acc)

createEntities(d, entities) == createEntitiesLoop(d, entities, <<>>)

----------------------------------------------------------------------------
(* createRelations *)

\* Mutant: the existence check never finds the edge.
MatchRelation_Never(d, relation) == 0

\* MATCH (e1:Entity {name: $from})-[r:RELATED_TO {relationType: $relationType}]
\*       ->(e2:Entity {name: $to}) RETURN r
MatchRelation(d, relation) ==
    Copies(d.RELATED_TO, <<relation.from, relation.to, relation.relationType>>)

\* Mutant: the edge is created without matching its endpoints.
CreateRelation_Unmatched(d, relation) ==
    [d EXCEPT !.RELATED_TO =
        AddEdges(@, Rows({<<relation.from, relation.to, relation.relationType>>}))]

\* MATCH (e1:Entity {name: $from}), (e2:Entity {name: $to})
\* CREATE (e1)-[:RELATED_TO {relationType: $relationType}]->(e2)
CreateRelation(d, relation) ==
    [d EXCEPT !.RELATED_TO =
        AddEdges(@, Rows({<<e1.name, e2.name, relation.relationType>> :
                             e1 \in MatchEntity(d, relation.from),
                             e2 \in MatchEntity(d, relation.to)}))]

\* The loop of createRelations; acc is newRelations.
RECURSIVE createRelationsLoop(_, _, _)
createRelationsLoop(d, relations, acc) ==
    IF relations = <<>> THEN [db |-> d, result |-> acc, error |-> "none"]
    ELSE LET relation == Head(relations) IN
         IF MatchRelation(d, relation) = 0
         THEN createRelationsLoop(CreateRelation(d, relation), Tail(relations),
                                  Append(acc, relation))
         ELSE createRelationsLoop(d, Tail(relations), acc)

createRelations(d, relations) == createRelationsLoop(d, relations, <<>>)

----------------------------------------------------------------------------
(* addObservations *)

\* MATCH (e:Entity {name}), (o:Observation {content})
\* WHERE NOT (e)-[:HAS_OBSERVATION]->(o) CREATE (e)-[:HAS_OBSERVATION]->(o)
LinkObservationIfUnlinked(d, name, content) ==
    [d EXCEPT !.HAS_OBSERVATION =
        AddEdges(@, Rows({<<e.name, o.id>> :
                             e \in MatchEntity(d, name),
                             o \in {x \in MatchObservation(d, content) :
                                      <<name, x.id>> \notin DOMAIN d.HAS_OBSERVATION}}))]

\* Mutant: the per-entity content check is skipped.
ObservationIsNew_Always(d, name, content) == TRUE

\* MATCH (e:Entity {name})-[:HAS_OBSERVATION]->(o:Observation {content})
\* RETURN o; getNumTuples() === 0
ObservationIsNew(d, name, content) == DOMAIN OwnedRows(d, name, content) = {}

\* Mutant: a missing entity is not detected.
EntityMissing_Never(d, name) == FALSE

\* if (getSingleResult(entityResult).getNumTuples() === 0) throw
EntityMissing(d, name) == MatchEntity(d, name) = {}

\* for (const content of obs.contents); acc is addedObservations.
RECURSIVE addContents(_, _, _, _)
addContents(d, entityName, contents, acc) ==
    IF contents = <<>> THEN [db |-> d, added |-> acc]
    ELSE LET content == Head(contents) IN
         IF ObservationIsNew(d, Literal(entityName), Literal(content))
         THEN addContents(
                  LinkObservationIfUnlinked(
                      CreateObservation(d, Literal(content)),
                      Literal(entityName), Literal(content)),
                  entityName, Tail(contents), Append(acc, content))
         ELSE addContents(d, entityName, Tail(contents), acc)

\* The loop of addObservations; acc is results.  A missing entity throws:
\* the entries already processed stay stored and no result is returned.
RECURSIVE addObservationsLoop(_, _, _)
addObservationsLoop(d, observations, acc) ==
    IF observations = <<>> THEN [db |-> d, result |-> acc, error |-> "none"]
    ELSE LET obs == Head(observations) IN
         IF EntityMissing(d, Literal(obs.entityName))
         THEN [db |-> d, result |-> <<>>, error |-> "NotFound"]
         ELSE LET r == addContents(d, obs.entityName, obs.contents, <<>>) IN
              addObservationsLoop(r.db, Tail(observations),
                  Append(acc, [entityName |-> obs.entityName,
                               addedObservations |-> r.added]))

addObservations(d, observations) == addObservationsLoop(d, observations, <<>>)

----------------------------------------------------------------------------
(* deleteEntities *)

\* Mutant: DELETE of the node and of its observation and tag links only; the
\* relations of the entity stay.
DetachDeleteEntity_KeepsRelations(d, name) ==
    [d EXCEPT
       !.Entity = {e \in @ : e.name # name},
       !.HAS_OBSERVATION = KeepEdges(@, {e \in DOMAIN @ : e[1] # name}),
       !.ENTITY_TAGGED_WITH = KeepEdges(@, {e \in DOMAIN @ : e[1] # name})]

\* Mutant: the tags of the entity are deleted with it.
DetachDeleteEntity_WithTags(d, name) ==
    [d EXCEPT
       !.Entity = {e \in @ : e.name # name},
       !.Tag = {t \in @ : <<name, t.name>> \notin DOMAIN d.ENTITY_TAGGED_WITH},
       !.HAS_OBSERVATION = KeepEdges(@, {e \in DOMAIN @ : e[1] # name}),
       !.RELATED_TO = KeepEdges(@, {e \in DOMAIN @ : e[1] # name /\ e[2] # name}),
       !.ENTITY_TAGGED_WITH = KeepEdges(@, {e \in DOMAIN @ : e[1] # name})]

\* MATCH (e:Entity {name: '...'}) DETACH DELETE e
DetachDeleteEntity(d, name) ==
    [d EXCEPT
       !.Entity = {e \in @ : e.name # name},
       !.HAS_OBSERVATION = KeepEdges(@, {e \in DOMAIN @ : e[1] # name}),
       !.RELATED_TO = KeepEdges(@, {e \in DOMAIN @ : e[1] # name /\ e[2] # name}),
       !.ENTITY_TAGGED_WITH = KeepEdges(@, {e \in DOMAIN @ : e[1] # name})]

\* (o:Observation) WHERE NOT (o)<-[:HAS_OBSERVATION]-()
Orphans(d) == {o \in d.Observation : Owners(d, o.id) = {}}

\* MATCH (o:Observation) WHERE NOT (o)<-[:HAS_OBSERVATION]-() DELETE o
\* DELETE without DETACH is refused by the engine when a matched node still
\* has an edge; the statement then changes nothing and the error is caught.
DeleteOrphans(d) ==
    IF \E o \in Orphans(d) :
          \E e \in DOMAIN d.OBSERVATION_TAGGED_WITH : e[1] = o.id
    THEN d
    ELSE [d EXCEPT !.Observation = @ \ Orphans(d)]

RECURSIVE deleteEntities(_, _)
deleteEntities(d, entityNames) ==
    IF entityNames = <<>> THEN [db |-> d, result |-> <<>>, error |-> "none"]
    ELSE deleteEntities(
             DeleteOrphans(DetachDeleteEntity(d, Literal(Head(entityNames)))),
             Tail(entityNames))

----------------------------------------------------------------------------
(* deleteObservations *)

\* Mutant: every observation with the content is deleted, whoever owns it.
DetachDeleteObservation_AnyOwner(d, name, content) ==
    LET gone == {o.id : o \in MatchObservation(d, content)} IN
    [d EXCEPT
       !.Observation = {o \in @ : o.id \notin gone},
       !.HAS_OBSERVATION = KeepEdges(@, {e \in DOMAIN @ : e[2] \notin gone}),
       !.OBSERVATION_TAGGED_WITH =
           KeepEdges(@, {e \in DOMAIN @ : e[1] \notin gone})]

\* MATCH (e:Entity {name})-[:HAS_OBSERVATION]->(o:Observation {content})
\* DETACH DELETE o
DetachDeleteObservation(d, name, content) ==
    LET gone == DOMAIN OwnedRows(d, name, content) IN
    [d EXCEPT
       !.Observation = {o \in @ : o.id \notin gone},
       !.HAS_OBSERVATION = KeepEdges(@, {e \in DOMAIN @ : e[2] \notin gone}),
       !.OBSERVATION_TAGGED_WITH =
           KeepEdges(@, {e \in DOMAIN @ : e[1] \notin gone})]

\* for (const observation of deletion.observations)
RECURSIVE deleteContents(_, _, _)
deleteContents(d, entityName, observations) ==
    IF observations = <<>> THEN d
    ELSE deleteContents(
             DetachDeleteObservation(d, Literal(entityName),
                                     Literal(Head(observations))),
             entityName, Tail(observations))

RECURSIVE deleteObservations(_, _)
deleteObservations(d, deletions) ==
    IF deletions = <<>> THEN [db |-> d, result |-> <<>>, error |-> "none"]
    ELSE deleteObservations(
             deleteContents(d, Head(deletions).entityName,
                            Head(deletions).observations),
             Tail(deletions))

----------------------------------------------------------------------------
(* deleteRelations *)

\* Mutant: the relationType is not part of the pattern.
DeleteRelation_AnyType(d, relation) ==
    [d EXCEPT !.RELATED_TO =
        KeepEdges(@, {e \in DOMAIN @ : ~(e[1] = Literal(relation.from)
                                         /\ e[2] = Literal(relation.to))})]

\* MATCH (e1 {name})-[r:RELATED_TO {relationType}]->(e2 {name}) DELETE r
DeleteRelation(d, relation) ==
    [d EXCEPT !.RELATED_TO =
        KeepEdges(@, DOMAIN @ \ {<<Literal(relation.from), Literal(relation.to),
                                   Literal(relation.relationType)>>})]

RECURSIVE deleteRelations(_, _)
deleteRelations(d, relations) ==
    IF relations = <<>> THEN [db |-> d, result |-> <<>>, error |-> "none"]
    ELSE deleteRelations(DeleteRelation(d, Head(relations)), Tail(relations))

----------------------------------------------------------------------------
(* Tags *)

\* tag.category || '' : an absent field (<<>>) or the one given (<<c>>)
OrEmpty(field) == IF field = <<>> THEN <<>> ELSE field[1]

\* The loop of createTags; acc is newTags.
RECURSIVE createTagsLoop(_, _, _)
createTagsLoop(d, tags, acc) ==
    IF tags = <<>> THEN [db |-> d, result |-> acc, error |-> "none"]
    ELSE LET tag == Head(tags) IN
         IF MatchTag(d, Literal(tag.name)) = {}
         THEN createTagsLoop(
                  CreateTag(d, Literal(tag.name), Literal(OrEmpty(tag.category)),
                            Literal(OrEmpty(tag.description))),
                  Tail(tags), Append(acc, tag))
         ELSE createTagsLoop(d, Tail(tags), acc)

\* Mutant: a tag that exists takes the category and description given.
RECURSIVE createTags_Overwrites(_, _)
createTags_Overwrites(d, tags) ==
    IF tags = <<>> THEN [db |-> d, result |-> <<>>, error |-> "none"]
    ELSE LET tag == Head(tags)
             kept == {t \in d.Tag : t.name # Literal(tag.name)}
             rest == createTags_Overwrites(
                         CreateTag([d EXCEPT !.Tag = kept], Literal(tag.name),
                                   Literal(OrEmpty(tag.category)),
                                   Literal(OrEmpty(tag.description))),
                         Tail(tags))
         IN IF MatchTag(d, Literal(tag.name)) = {}
            THEN [rest EXCEPT !.result = <<tag>> \o @]
            ELSE rest

createTags(d, tags) == createTagsLoop(d, tags, <<>>)

EnsureTag_Never(d, tagName) == d

\* Check if tag exists, create if not
EnsureTag(d, tagName) ==
    IF MatchTag(d, tagName) = {} THEN CreateTag(d, tagName, <<>>, <<>>) ELSE d

\* for (const tagName of tagNames) in tagEntity; acc is addedTags.
RECURSIVE tagEntityLoop(_, _, _, _)
tagEntityLoop(d, entityName, tagNames, acc) ==
    IF tagNames = <<>> THEN [db |-> d, result |-> acc, error |-> "none"]
    ELSE LET tagName == Head(tagNames)
             d1 == EnsureTag(d, Literal(tagName))
         IN IF Copies(d1.ENTITY_TAGGED_WITH,
                      <<Literal(entityName), Literal(tagName)>>) = 0
            THEN tagEntityLoop(
                     LinkEntityTag(d1, Literal(entityName), Literal(tagName)),
                     entityName, Tail(tagNames), Append(acc, tagName))
            ELSE tagEntityLoop(d1, entityName, Tail(tagNames), acc)

tagEntity_Unchecked(d, entityName, tagNames) ==
    tagEntityLoop(d, entityName, tagNames, <<>>)

\* if (getNumTuples() === 0) throw new Error(`Entity with name ... not found`)
tagEntity(d, entityName, tagNames) ==
    IF MatchEntity(d, Literal(entityName)) = {}
    THEN [db |-> d, result |-> <<>>, error |-> "NotFound"]
    ELSE tagEntityLoop(d, entityName, tagNames, <<>>)

\* MATCH (e {name})-[:HAS_OBSERVATION]->(o {content}), (t:Tag {name})
\* CREATE (o)-[:OBSERVATION_TAGGED_WITH]->(t)
LinkObservationTag(d, name, content, tagName) ==
    LET rows == OwnedRows(d, name, content) IN
    [d EXCEPT !.OBSERVATION_TAGGED_WITH =
        AddEdges(@, [e \in {<<id, t.name>> : id \in DOMAIN rows,
                                             t \in MatchTag(d, tagName)}
                        |-> rows[e[1]]])]

\* for (const tagName of tagNames) in tagObservation; acc is addedTags.
RECURSIVE tagObservationLoop(_, _, _, _, _)
tagObservationLoop(d, entityName, observationContent, tagNames, acc) ==
    IF tagNames = <<>> THEN [db |-> d, result |-> acc, error |-> "none"]
    ELSE LET tagName == Head(tagNames)
             d1 == EnsureTag(d, Literal(tagName))
             tagged == {id \in DOMAIN OwnedRows(d1, Literal(entityName),
                                                Literal(observationContent)) :
                          <<id, Literal(tagName)>> \in
                              DOMAIN d1.OBSERVATION_TAGGED_WITH}
         IN IF tagged = {}
            THEN tagObservationLoop(
                     LinkObservationTag(d1, Literal(entityName),
                                        Literal(observationContent),
                                        Literal(tagName)),
                     entityName, observationContent, Tail(tagNames),
                     Append(acc, tagName))
            ELSE tagObservationLoop(d1, entityName, observationContent,
                                    Tail(tagNames), acc)

tagObservation(d, entityName, observationContent, tagNames) ==
    tagObservationLoop(d, entityName, observationContent, tagNames, <<>>)

\* The loop of removeTagsFromEntity; acc is removedTags.
RECURSIVE removeTagsLoop(_, _, _, _)
removeTagsLoop(d, entityName, tagNames, acc) ==
    IF tagNames = <<>> THEN [db |-> d, result |-> acc, error |-> "none"]
    ELSE LET edge == <<Literal(entityName), Literal(Head(tagNames))>> IN
         IF Copies(d.ENTITY_TAGGED_WITH, edge) > 0
         THEN removeTagsLoop(
                  [d EXCEPT !.ENTITY_TAGGED_WITH = KeepEdges(@, DOMAIN @ \ {edge})],
                  entityName, Tail(tagNames), Append(acc, Head(tagNames)))
         ELSE removeTagsLoop(d, entityName, Tail(tagNames), acc)

removeTagsFromEntity_ReportsAll(d, entityName, tagNames) ==
    [removeTagsLoop(d, entityName, tagNames, <<>>) EXCEPT !.result = tagNames]

removeTagsFromEntity(d, entityName, tagNames) ==
    removeTagsLoop(d, entityName, tagNames, <<>>)

----------------------------------------------------------------------------
(* readGraph *)

Surfaced_Raw(field) == <<field>>

\* category: row.category === '' ? undefined : row.category
Surfaced(field) == IF field = <<>> THEN <<>> ELSE <<field>>

\* The rows of S in ascending order of their name (names are primary keys).
OrderByName(S) ==
    [i \in 1..Cardinality(S) |->
        CHOOSE t \in S : Cardinality({u \in S : Precedes(u.name, t.name)}) = i - 1]

\* MATCH (t:Tag) RETURN t.name, t.category, t.description ORDER BY t.name
getAllTags(d) ==
    OrderByName({[name |-> t.name, category |-> Surfaced(t.category),
                  description |-> Surfaced(t.description)] : t \in d.Tag})

readGraph_Observed(d) ==
    [ entities |->
        {[name |-> e.name, entityType |-> e.entityType,
          observations |-> {o.content : o \in {x \in d.Observation :
                                 <<e.name, x.id>> \in DOMAIN d.HAS_OBSERVATION}},
          tags |-> {t.name : t \in {x \in d.Tag :
                                 <<e.name, x.name>> \in DOMAIN d.ENTITY_TAGGED_WITH}}]
            : e \in {y \in d.Entity :
                        \E x \in DOMAIN d.HAS_OBSERVATION : x[1] = y.name}},
      relations |->
        [r \in {[from |-> e[1], to |-> e[2], relationType |-> e[3]] :
                    e \in DOMAIN d.RELATED_TO}
            |-> d.RELATED_TO[<<r.from, r.to, r.relationType>>]],
      tags |-> getAllTags(d) ]

\* MATCH (e:Entity) OPTIONAL MATCH (e)-[:HAS_OBSERVATION]->(o)
\* OPTIONAL MATCH (e)-[:ENTITY_TAGGED_WITH]->(et)
\* RETURN e.name, e.entityType, COLLECT(DISTINCT o.content), COLLECT(DISTINCT et.name)
\* and MATCH (e1)-[r:RELATED_TO]->(e2) RETURN e1.name, e2.name, r.relationType
readGraph(d) ==
    [ entities |->
        {[name |-> e.name, entityType |-> e.entityType,
          observations |-> {o.content : o \in {x \in d.Observation :
                                 <<e.name, x.id>> \in DOMAIN d.HAS_OBSERVATION}},
          tags |-> {t.name : t \in {x \in d.Tag :
                                 <<e.name, x.name>> \in DOMAIN d.ENTITY_TAGGED_WITH}}]
            : e \in d.Entity},
      relations |->
        [r \in {[from |-> e[1], to |-> e[2], relationType |-> e[3]] :
                    e \in DOMAIN d.RELATED_TO}
            |-> d.RELATED_TO[<<r.from, r.to, r.relationType>>]],
      tags |-> getAllTags(d) ]

----------------------------------------------------------------------------
(* searchNodes, openNodes, getEntitiesByTag, getTagUsage *)

Range(list) == {list[i] : i \in 1..Len(list)}

\* names.map((name) => `'${name.replace(/'/g, "\\'")}'`) as the engine reads it
LiteralNames(names) == {Literal(n) : n \in names}

InducedRelations_FromOnly(d, names) ==
    [e \in {x \in DOMAIN d.RELATED_TO : x[1] \in names} |-> d.RELATED_TO[e]]

\* MATCH (e1:Entity)-[r:RELATED_TO]->(e2:Entity)
\* WHERE e1.name IN [names] AND e2.name IN [names]
\* RETURN e1.name AS from, e2.name AS to, r.relationType: one row per edge
InducedRelations(d, names) ==
    [e \in {x \in DOMAIN d.RELATED_TO : x[1] \in names /\ x[2] \in names}
        |-> d.RELATED_TO[e]]

\* The rows pushed to relations: Relation objects, with their number of copies.
RelationRows(B) ==
    [r \in {[from |-> e[1], to |-> e[2], relationType |-> e[3]] : e \in DOMAIN B}
        |-> B[<<r.from, r.to, r.relationType>>]]

\* The WHERE clause of searchNodes, on entity e and observation o
SearchPredicate(e, o, literal) ==
    \/ Contains(Lower(e.name), literal)
    \/ Contains(Lower(e.entityType), literal)
    \/ Contains(Lower(o.content), literal)

\* MATCH (e:Entity)
\* OPTIONAL MATCH (e)-[:HAS_OBSERVATION]->(o:Observation) WHERE ...
\* WITH e, COLLECT(DISTINCT o.content) AS observations
\* The WHERE clause belongs to the OPTIONAL MATCH: it selects the
\* observations bound to o, and an entity with none selected keeps its row
\* with o null.
SearchRows(d, literal) ==
    {[name |-> e.name, entityType |-> e.entityType,
      observations |->
          {o.content : o \in {x \in d.Observation :
               /\ <<e.name, x.id>> \in DOMAIN d.HAS_OBSERVATION
               /\ SearchPredicate(e, x, literal)}} \ {<<>>}]
        : e \in d.Entity}

searchNodes(d, query) ==
    LET entities == SearchRows(d, Literal(Lower(query)))
        entityNames == {e.name : e \in entities}
    IN [ entities |-> entities,
         relations |-> IF entityNames # {}
                       THEN RelationRows(InducedRelations(d, LiteralNames(entityNames)))
                       ELSE RelationRows(NoEdges) ]

OpenRows_All(d, names) == d.Entity

\* MATCH (e:Entity) WHERE e.name IN [names]
OpenRows(d, names) == {e \in d.Entity : e.name \in names}

\* COLLECT(o.content) over OPTIONAL MATCH (e)-[:HAS_OBSERVATION]->(o): one
\* element per edge, so a content is listed once per edge that reaches it.
CollectedContents(d, name) ==
    LET edges == {x \in DOMAIN d.HAS_OBSERVATION : x[1] = name}
        contentOf(id) == (CHOOSE o \in d.Observation : o.id = id).content
        RECURSIVE Total(_)
        Total(S) == IF S = {} THEN 0
                    ELSE LET x == CHOOSE y \in S : TRUE
                         IN d.HAS_OBSERVATION[x] + Total(S \ {x})
    IN [c \in {contentOf(x[2]) : x \in edges}
           |-> Total({x \in edges : contentOf(x[2]) = c})]

\* An empty names list gives the list literal [], which no name is IN.
openNodes(d, names) ==
    LET literals == LiteralNames(Range(names)) IN
    [ entities |->
        {[name |-> e.name, entityType |-> e.entityType,
          observations |-> CollectedContents(d, e.name)]
            : e \in OpenRows(d, literals)},
      relations |-> RelationRows(InducedRelations(d, literals)) ]

TaggedRows_AnyTag(d, tagName) ==
    {e \in d.Entity : \E t \in d.Tag : <<e.name, t.name>> \in DOMAIN d.ENTITY_TAGGED_WITH}

\* MATCH (e:Entity)-[:ENTITY_TAGGED_WITH]->(t:Tag {name: tagName}), grouped
\* by e.name, e.entityType
TaggedRows(d, tagName) ==
    {e \in d.Entity : <<e.name, tagName>> \in DOMAIN d.ENTITY_TAGGED_WITH}

\* COLLECT(DISTINCT o.content) AS observations, COLLECT(DISTINCT t.name) AS
\* entityTags, where t is the tag of the MATCH
getEntitiesByTag(d, tagName) ==
    LET entities ==
            {[name |-> e.name, entityType |-> e.entityType,
              observations |->
                  {o.content : o \in {x \in d.Observation :
                       <<e.name, x.id>> \in DOMAIN d.HAS_OBSERVATION}} \ {<<>>},
              tags |-> {t.name : t \in MatchTag(d, Literal(tagName))} \ {<<>>}]
                : e \in TaggedRows(d, Literal(tagName))}
        entityNames == {e.name : e \in entities}
    IN [ entities |-> entities,
         relations |-> IF entityNames # {}
                       THEN RelationRows(InducedRelations(d, LiteralNames(entityNames)))
                       ELSE RelationRows(NoEdges) ]

UsageRows_AnyTag(d) ==
    {[tag |-> t.name,
      entityCount |-> Cardinality({e[1] : e \in DOMAIN d.ENTITY_TAGGED_WITH}),
      observationCount |-> Cardinality({e[1] : e \in DOMAIN d.OBSERVATION_TAGGED_WITH})]
        : t \in d.Tag}

\* MATCH (t:Tag) OPTIONAL MATCH (e:Entity)-[:ENTITY_TAGGED_WITH]->(t)
\* OPTIONAL MATCH (o:Observation)-[:OBSERVATION_TAGGED_WITH]->(t)
\* RETURN t.name AS tag, COUNT(DISTINCT e), COUNT(DISTINCT o)
UsageRows(d) ==
    {[tag |-> t.name,
      entityCount |->
          Cardinality({e \in d.Entity :
                          <<e.name, t.name>> \in DOMAIN d.ENTITY_TAGGED_WITH}),
      observationCount |->
          Cardinality({o \in d.Observation :
                          <<o.id, t.name>> \in DOMAIN d.OBSERVATION_TAGGED_WITH})]
        : t \in d.Tag}

\* ORDER BY entityCount + observationCount DESC: the lists getTagUsage may
\* return (rows of equal total come in any order).
getTagUsage(d) ==
    LET rows == UsageRows(d)
        total(r) == r.entityCount + r.observationCount
    IN {list \in [1..Cardinality(rows) -> rows] :
           /\ \A i, j \in DOMAIN list : i # j => list[i] # list[j]
           /\ \A i, j \in DOMAIN list : i < j => total(list[i]) >= total(list[j])}

----------------------------------------------------------------------------
(* Tool arguments *)

Min(a, b) == IF a < b THEN a ELSE b

RECURSIVE SeqsOfLen(_, _)
SeqsOfLen(S, n) ==
    IF n = 0 THEN {<<>>}
    ELSE {<<x>> \o t : x \in S, t \in SeqsOfLen(S, n - 1)}

\* The lists over S of at most n elements.
SeqsUpTo(S, n) == UNION {SeqsOfLen(S, k) : k \in 0..n}

\* interface Entity
EntityInputs ==
    [name : Names, entityType : EntityTypes,
     observations : SeqsUpTo(Contents, MaxLen), tags : SeqsUpTo(TagNames, MaxLen)]

\* interface Relation
RelationInputs == [from : Names, to : Names, relationType : RelationTypes]

\* interface Tag; an optional field is <<>> (absent) or <<value>>
TagInputs ==
    [name : TagNames, category : {<<>>, <<<<"c">>>>},
     description : {<<>>, <<<<"d">>>>}]

\* { entityName, contents } and { entityName, observations }
AdditionInputs == [entityName : Names, contents : SeqsUpTo(Contents, MaxLen)]
DeletionInputs == [entityName : Names, observations : SeqsUpTo(Contents, MaxLen)]

EntityWeight(e) == 1 + Len(e.observations) + Len(e.tags)
AdditionWeight(e) == Len(e.contents)
DeletionWeight(e) == Len(e.observations)

RECURSIVE EntityLists(_, _)
EntityLists(b, n) ==
    IF n = 0 THEN {<<>>}
    ELSE {<<>>} \cup
         UNION {{<<e>> \o t : t \in EntityLists(b - EntityWeight(e), n - 1)} :
                   e \in {x \in EntityInputs : EntityWeight(x) <= b}}

RECURSIVE AdditionLists(_, _)
AdditionLists(b, n) ==
    IF n = 0 THEN {<<>>}
    ELSE {<<>>} \cup
         UNION {{<<e>> \o t : t \in AdditionLists(b - AdditionWeight(e), n - 1)} :
                   e \in {x \in AdditionInputs : AdditionWeight(x) <= b}}

RECURSIVE DeletionLists(_, _)
DeletionLists(b, n) ==
    IF n = 0 THEN {<<>>}
    ELSE {<<>>} \cup
         UNION {{<<e>> \o t : t \in DeletionLists(b - DeletionWeight(e), n - 1)} :
                   e \in {x \in DeletionInputs : DeletionWeight(x) <= b}}

RECURSIVE SumWeights(_, _)
SumWeights(W(_), list) ==
    IF list = <<>> THEN 0 ELSE W(Head(list)) + SumWeights(W, Tail(list))

\* The argument values of each tool, by the number of items left to submit.
Budgets == 0..MaxItems
EntitiesArgs == [b \in Budgets |-> EntityLists(b, MaxLen)]
RelationsArgs == [b \in Budgets |-> SeqsUpTo(RelationInputs, Min(b, MaxLen))]
ObservationsArgs == [b \in Budgets |-> AdditionLists(b, MaxLen)]
DeletionsArgs == [b \in Budgets |-> DeletionLists(b, MaxLen)]
EntityNamesArgs == [b \in Budgets |-> SeqsUpTo(Names, Min(b, MaxLen))]
TagsArgs == [b \in Budgets |-> SeqsUpTo(TagInputs, Min(b, MaxLen))]
TagNamesArgs == [b \in Budgets |-> SeqsUpTo(TagNames, Min(b, MaxLen))]

\* The arguments of the reading tools
Queries == {<<"A">>, <<"X">>, <<"p">>, <<Q>>}
OpenArgs == SeqsUpTo(Names, MaxLen)

----------------------------------------------------------------------------
(* The server: one tool call at a time *)

Idle == [op |-> "idle"]

\* The CREATE ... TABLE IF NOT EXISTS statements of initialize()
SchemaStatements == 7

\* main() has run to its end: the schema is initialized, the transport is
\* connected and the signal handlers are registered.
Serving ==
    [phase |-> "serving", schema |-> SchemaStatements, closes |-> 0,
     exit |-> "none", initFailed |-> FALSE]

\* No handler is suspended.
NoRequests == [tasks |-> <<>>, log |-> <<>>]

Init ==
    /\ db = EmptyDb
    /\ last = Idle
    /\ items = 0
    /\ proc = Serving
    /\ inflight = NoRequests

\* The handler ran method op on args to its end: r carries the graph it
\* left, the value it returned and the error it threw.
Call(op, args, r, weight) ==
    /\ db' = r.db
    /\ last' = [op |-> op, args |-> args, pre |-> db,
                result |-> r.result, error |-> r.error]
    /\ items' = items + weight
    /\ UNCHANGED <<proc, inflight>>

create_entities ==
    /\ last = Idle
    /\ \E entities \in EntitiesArgs[MaxItems - items] :
          Call("createEntities", entities, createEntities(db, entities),
               SumWeights(EntityWeight, entities))

create_relations ==
    /\ last = Idle
    /\ \E relations \in RelationsArgs[MaxItems - items] :
          Call("createRelations", relations, createRelations(db, relations),
               Len(relations))

add_observations ==
    /\ last = Idle
    /\ \E observations \in ObservationsArgs[MaxItems - items] :
          Call("addObservations", observations,
               addObservations(db, observations),
               SumWeights(AdditionWeight, observations))

delete_entities ==
    /\ last = Idle
    /\ \E entityNames \in EntityNamesArgs[MaxItems - items] :
          Call("deleteEntities", entityNames, deleteEntities(db, entityNames),
               Len(entityNames))

delete_observations ==
    /\ last = Idle
    /\ \E deletions \in DeletionsArgs[MaxItems - items] :
          Call("deleteObservations", deletions,
               deleteObservations(db, deletions),
               SumWeights(DeletionWeight, deletions))

delete_relations ==
    /\ last = Idle
    /\ \E relations \in RelationsArgs[MaxItems - items] :
          Call("deleteRelations", relations, deleteRelations(db, relations),
               Len(relations))

create_tags ==
    /\ last = Idle
    /\ \E tags \in TagsArgs[MaxItems - items] :
          Call("createTags", tags, createTags(db, tags), Len(tags))

tag_entity ==
    /\ last = Idle
    /\ \E entityName \in Names, tagNames \in TagNamesArgs[MaxItems - items] :
          Call("tagEntity", [entityName |-> entityName, tagNames |-> tagNames],
               tagEntity(db, entityName, tagNames), Len(tagNames))

tag_observation ==
    /\ last = Idle
    /\ \E entityName \in Names, observationContent \in Contents,
          tagNames \in TagNamesArgs[MaxItems - items] :
          Call("tagObservation",
               [entityName |-> entityName,
                observationContent |-> observationContent,
                tagNames |-> tagNames],
               tagObservation(db, entityName, observationContent, tagNames),
               Len(tagNames))

remove_tags_from_entity ==
    /\ last = Idle
    /\ \E entityName \in Names, tagNames \in TagNamesArgs[MaxItems - items] :
          Call("removeTagsFromEntity",
               [entityName |-> entityName, tagNames |-> tagNames],
               removeTagsFromEntity(db, entityName, tagNames),
               Len(tagNames))

read_graph ==
    /\ last = Idle
    /\ Call("readGraph", <<>>,
            [db |-> db, result |-> readGraph(db), error |-> "none"], 0)

search_nodes ==
    /\ last = Idle
    /\ \E query \in Queries :
          Call("searchNodes", query,
               [db |-> db, result |-> searchNodes(db, query), error |-> "none"], 0)

open_nodes ==
    /\ last = Idle
    /\ \E names \in OpenArgs :
          Call("openNodes", names,
               [db |-> db, result |-> openNodes(db, names), error |-> "none"], 0)

get_entities_by_tag ==
    /\ last = Idle
    /\ \E tagName \in TagNames :
          Call("getEntitiesByTag", tagName,
               [db |-> db, result |-> getEntitiesByTag(db, tagName),
                error |-> "none"], 0)

get_all_tags ==
    /\ last = Idle
    /\ Call("getAllTags", <<>>,
            [db |-> db, result |-> getAllTags(db), error |-> "none"], 0)

get_tag_usage ==
    /\ last = Idle
    /\ \E usage \in getTagUsage(db) :
          Call("getTagUsage", <<>>,
               [db |-> db, result |-> usage, error |-> "none"], 0)

\* The response is written; the server waits for the next request.
Respond ==
    /\ last # Idle
    /\ last' = Idle
    /\ UNCHANGED <<db, items, proc, inflight>>

Next ==
    \/ create_entities
    \/ create_relations
    \/ add_observations
    \/ delete_entities
    \/ delete_observations
    \/ delete_relations
    \/ create_tags
    \/ tag_entity
    \/ tag_observation
    \/ remove_tags_from_entity
    \/ read_graph
    \/ search_nodes
    \/ open_nodes
    \/ get_entities_by_tag
    \/ get_all_tags
    \/ get_tag_usage
    \/ Respond

Spec == Init /\ [][Next]_vars

----------------------------------------------------------------------------
(* Vocabulary of the properties *)

LiveNames(d) == {e.name : e \in d.Entity}

\* The observation nodes linked from entity name.
Owned(d, name) == {o \in d.Observation : name \in Owners(d, o.id)}

\* What readGraph lists under entity name.
ObservationsOf(d, name) == {o.content : o \in Owned(d, name)}

Returned(op) == last.op = op

----------------------------------------------------------------------------
(* C1 *)

\* C1: after deleteEntities(names) has returned, readGraph lists, for every
\* X of names, no entity named X and no relation from or to X, and no entity
\* it lists still holds an observation that only X owned before the call.
C1_CascadingDelete ==
    Returned("deleteEntities") =>
        \A X \in Range(last.args) :
            LET g == readGraph(db) IN
            /\ \A e \in g.entities : e.name # X
            /\ \A r \in DOMAIN g.relations : r.from # X /\ r.to # X
            /\ \A o \in last.pre.Observation :
                  Owners(last.pre, o.id) = {X} =>
                      \A e \in g.entities : o \notin Owned(db, e.name)

\* A live X with an observation of its own and a relation to a live entity
\* was deleted.
C1_Witness ==
    /\ Returned("deleteEntities")
    /\ Len(last.args) = 1
    /\ \E o \in last.pre.Observation : Owners(last.pre, o.id) = {last.args[1]}
    /\ \E r \in DOMAIN last.pre.RELATED_TO :
          r[2] = last.args[1] /\ r[1] # last.args[1]
    /\ db.Entity # {}

----------------------------------------------------------------------------
(* C2 *)

\* C2: in every reachable state each Observation node has at most one
\* owning entity.
C2_ExclusiveOwnership ==
    \A o \in db.Observation : Cardinality(Owners(db, o.id)) <= 1

----------------------------------------------------------------------------
(* C3 *)

\* C3: when deleteEntities has returned, no Observation node is left
\* without an incoming HAS_OBSERVATION link.
C3_NoOrphanAfterDelete ==
    Returned("deleteEntities") => Orphans(db) = {}

----------------------------------------------------------------------------
(* C4 *)

\* C4: when deleteObservations has returned, every entity that no deletion
\* names lists the same observation contents as before the call.
C4_DeleteObservationsFrame ==
    Returned("deleteObservations") =>
        \A B \in LiveNames(last.pre) \ {x.entityName : x \in Range(last.args)} :
            ObservationsOf(db, B) = ObservationsOf(last.pre, B)

----------------------------------------------------------------------------
(* C5 *)

Triple(r) == <<r.from, r.to, r.relationType>>

\* C5: in every reachable state the RELATED_TO table holds each triple
\* (from, to, relationType) at most once, and readGraph lists each relation
\* once.
C5_RelationUniqueness ==
    /\ \A e \in DOMAIN db.RELATED_TO : db.RELATED_TO[e] = 1
    /\ \A r \in DOMAIN readGraph(db).relations : readGraph(db).relations[r] = 1

\* createRelations was given the same new triple twice in one call, between
\* live entities, and one edge is stored.
C5_Witness ==
    /\ Returned("createRelations")
    /\ Len(last.args) = 2
    /\ last.args[1] = last.args[2]
    /\ Copies(last.pre.RELATED_TO, Triple(last.args[1])) = 0
    /\ Copies(db.RELATED_TO, Triple(last.args[1])) = 1

----------------------------------------------------------------------------
(* C6 *)

Occurrences(list, x) == Cardinality({i \in 1..Len(list) : list[i] = x})

\* C6: the list createRelations returns holds exactly the relations the call
\* has stored: each triple as often as the call added an edge for it.
C6_ReturnsNewlyStored ==
    Returned("createRelations") =>
        \A r \in RelationInputs :
            Occurrences(last.result, r) + Copies(last.pre.RELATED_TO, Triple(r))
                = Copies(db.RELATED_TO, Triple(r))

----------------------------------------------------------------------------
(* C7 *)

\* C7: in every reachable state both endpoints of every RELATED_TO edge are
\* live entities.
C7_NoDanglingRelation ==
    \A e \in DOMAIN db.RELATED_TO :
        e[1] \in LiveNames(db) /\ e[2] \in LiveNames(db)

\* An endpoint of a stored relation was deleted while the other endpoint
\* stays live.
C7_Witness ==
    /\ Returned("deleteEntities")
    /\ \E e \in DOMAIN last.pre.RELATED_TO :
          /\ e[1] \in Range(last.args)
          /\ e[2] \notin Range(last.args)
          /\ e[2] \in LiveNames(db)

----------------------------------------------------------------------------
(* C8 *)

\* Everything stored about entity name: its node, its observation nodes
\* with their links, its tag links.
Stored(d, name) ==
    [ nodes |-> MatchEntity(d, name),
      observations |-> Owned(d, name),
      links |-> KeepEdges(d.HAS_OBSERVATION,
                          {e \in DOMAIN d.HAS_OBSERVATION : e[1] = name}),
      tags |-> KeepEdges(d.ENTITY_TAGGED_WITH,
                         {e \in DOMAIN d.ENTITY_TAGGED_WITH : e[1] = name}) ]

\* C8: when createEntities has returned, an input entity whose name existed
\* before the call is not in the returned list and what is stored for that
\* name is as before; the returned list holds each name once, namely the
\* first input entity of a name that did not exist; one node is stored per
\* name.
C8_IdempotentCreate ==
    Returned("createEntities") =>
        /\ \A e \in Range(last.args) :
              e.name \in LiveNames(last.pre) =>
                  /\ \A c \in Range(last.result) : c.name # e.name
                  /\ Stored(db, e.name) = Stored(last.pre, e.name)
        /\ \A i \in 1..Len(last.result) :
              /\ last.result[i].name \notin LiveNames(last.pre)
              /\ \A j \in 1..Len(last.result) :
                    last.result[j].name = last.result[i].name => j = i
              /\ \E k \in 1..Len(last.args) :
                    /\ last.args[k] = last.result[i]
                    /\ \A m \in 1..(k - 1) : last.args[m].name # last.args[k].name
        /\ \A e \in Range(last.args) :
              /\ Cardinality(MatchEntity(db, e.name)) = 1
              /\ \/ e.name \in LiveNames(last.pre)
                 \/ \E c \in Range(last.result) : c.name = e.name

\* One call named a new entity twice, the second time with another type and
\* with observations and tags; only the first was created.
C8_Witness ==
    /\ Returned("createEntities")
    /\ Len(last.args) = 2
    /\ last.args[1].name = last.args[2].name
    /\ last.args[1].name \notin LiveNames(last.pre)
    /\ last.args[1].entityType # last.args[2].entityType
    /\ last.args[2].observations # <<>>
    /\ last.args[2].tags # <<>>
    /\ Len(last.result) = 1

----------------------------------------------------------------------------
(* C9 *)

RECURSIVE ContentsBefore(_, _)
ContentsBefore(observations, i) ==
    IF i <= 1 THEN 0
    ELSE Len(observations[i - 1].contents) + ContentsBefore(observations, i - 1)

\* C9: when addObservations has returned and entry i names an entity that
\* does not exist, the call has thrown NotFound, no HAS_OBSERVATION link
\* leaves that name, no Observation was created beyond the contents of the
\* entries before i, and a call of that one entry has left the graph as it
\* was.
C9_AddToMissingEntity ==
    Returned("addObservations") =>
        \A i \in 1..Len(last.args) :
            last.args[i].entityName \notin LiveNames(last.pre) =>
                /\ last.error = "NotFound"
                /\ \A e \in DOMAIN db.HAS_OBSERVATION :
                      e[1] # last.args[i].entityName
                /\ Cardinality(db.Observation) <=
                      Cardinality(last.pre.Observation)
                          + ContentsBefore(last.args, i)
                /\ Len(last.args) = 1 => db = last.pre

\* A non-empty graph, and a call whose only entry names a missing entity
\* with a content to add.
C9_Witness ==
    /\ Returned("addObservations")
    /\ Len(last.args) = 1
    /\ last.args[1].entityName \notin LiveNames(last.pre)
    /\ last.args[1].contents # <<>>
    /\ last.pre.Observation # {}
    /\ last.error = "NotFound"

----------------------------------------------------------------------------
(* C10 *)

\* The contents linked to the entity of entry i when the loop reaches it.
LinkedBefore(i) ==
    ObservationsOf(last.pre, last.args[i].entityName) \cup
    UNION {Range(last.result[j].addedObservations) :
              j \in {k \in 1..(i - 1) :
                        last.args[k].entityName = last.args[i].entityName}}

\* C10: when addObservations has returned without error, entry i reports
\* exactly the contents that were not linked to its entity before, each
\* once; every requested content is then an observation of the entity; and
\* the same call made again reports nothing and changes nothing.
C10_AddDeduplicates ==
    (Returned("addObservations") /\ last.error = "none") =>
        /\ Len(last.result) = Len(last.args)
        /\ \A i \in 1..Len(last.args) :
              LET added == last.result[i].addedObservations IN
              /\ last.result[i].entityName = last.args[i].entityName
              /\ Range(added) = Range(last.args[i].contents) \ LinkedBefore(i)
              /\ \A a, b \in 1..Len(added) : added[a] = added[b] => a = b
              /\ Range(last.args[i].contents) \subseteq
                     ObservationsOf(db, last.args[i].entityName)
        /\ LET again == addObservations(db, last.args) IN
              /\ again.db = db
              /\ again.error = "none"
              /\ \A i \in 1..Len(last.args) :
                    again.result[i].addedObservations = <<>>

\* One entry added a content the entity already had together with a new
\* one; only the new one is reported.
C10_Witness ==
    /\ Returned("addObservations")
    /\ last.error = "none"
    /\ Len(last.args) = 1
    /\ Len(last.args[1].contents) = 2
    /\ last.args[1].contents[1] \in
           ObservationsOf(last.pre, last.args[1].entityName)
    /\ last.args[1].contents[2] \notin
           ObservationsOf(last.pre, last.args[1].entityName)
    /\ last.result[1].addedObservations = <<last.args[1].contents[2]>>

----------------------------------------------------------------------------
(* C11, C12 *)

\* Entity e of graph d matches query: the lower-cased query is a substring
\* of its lower-cased name, type, or one of its observation contents.
Matches(d, e, query) ==
    \/ Contains(Lower(e.name), Lower(query))
    \/ Contains(Lower(e.entityType), Lower(query))
    \/ \E c \in ObservationsOf(d, e.name) : Contains(Lower(c), Lower(query))

\* C11: searchNodes(query) returns exactly the entities whose lower-cased
\* name, type or some observation content contains the lower-cased query;
\* an entity that satisfies none of the three is not returned.
C11_SearchReturnsMatches ==
    Returned("searchNodes") =>
        {e.name : e \in last.result.entities} =
            {e.name : e \in {x \in last.pre.Entity : Matches(last.pre, x, last.args)}}

\* C12: an entity that searchNodes returns because it matches the query
\* carries all of its observations, not only those that contain the query.
C12_SearchKeepsObservations ==
    Returned("searchNodes") =>
        \A e \in last.result.entities :
            (\E x \in last.pre.Entity : x.name = e.name /\ Matches(last.pre, x, last.args))
                => e.observations = ObservationsOf(last.pre, e.name)

----------------------------------------------------------------------------
(* C13 *)

\* The stored relations of d with both ends in names, as Relation objects.
StoredAmong(d, names) ==
    {[from |-> e[1], to |-> e[2], relationType |-> e[3]] :
        e \in {x \in DOMAIN d.RELATED_TO : x[1] \in names /\ x[2] \in names}}

\* C13: the relations that searchNodes, openNodes and getEntitiesByTag
\* return are exactly the stored relations whose from and to are both among
\* the returned entities, each listed as often as it is stored.
C13_InducedRelations ==
    (Returned("searchNodes") \/ Returned("openNodes") \/ Returned("getEntitiesByTag")) =>
        LET names == {e.name : e \in last.result.entities} IN
        /\ DOMAIN last.result.relations = StoredAmong(last.pre, names)
        /\ \A r \in DOMAIN last.result.relations :
               last.result.relations[r] = last.pre.RELATED_TO[Triple(r)]

\* openNodes returned a relation inside the set while a stored relation
\* leaves the set.
C13_Witness ==
    /\ Returned("openNodes")
    /\ DOMAIN last.result.relations # {}
    /\ \E e \in DOMAIN last.pre.RELATED_TO :
           /\ e[1] \in {x.name : x \in last.result.entities}
           /\ e[2] \notin {x.name : x \in last.result.entities}

----------------------------------------------------------------------------
(* C14 *)

\* C14: openNodes(names) raises no error and returns, once each, exactly
\* the live entities whose name is in names, with their stored type and
\* the contents of their observations; a name that is not an entity is
\* absent, and an empty names list gives an empty result.
C14_OpenNodes ==
    Returned("openNodes") =>
        /\ last.error = "none"
        /\ {e.name : e \in last.result.entities} =
               LiveNames(last.pre) \cap Range(last.args)
        /\ Cardinality(last.result.entities) =
               Cardinality(LiveNames(last.pre) \cap Range(last.args))
        /\ \A e \in last.result.entities :
               /\ [name |-> e.name, entityType |-> e.entityType] \in last.pre.Entity
               /\ DOMAIN e.observations = ObservationsOf(last.pre, e.name)
        /\ last.args = <<>> => last.result.entities = {}

\* openNodes was given a live entity that has two observations, and a name
\* that is no entity.
C14_Witness ==
    /\ Returned("openNodes")
    /\ \E e \in last.result.entities : Cardinality(DOMAIN e.observations) = 2
    /\ Range(last.args) \ LiveNames(last.pre) # {}

----------------------------------------------------------------------------
(* C15, C16 *)

\* The names of the entities of d that hold a link to tag tagName.
TaggedNames(d, tagName) ==
    {e.name : e \in {x \in d.Entity :
                        Copies(d.ENTITY_TAGGED_WITH, <<x.name, tagName>>) > 0}}

\* The names of the tags that entity name of d is linked to.
TagsOf(d, name) ==
    {t.name : t \in {x \in d.Tag : Copies(d.ENTITY_TAGGED_WITH, <<name, x.name>>) > 0}}

\* C15: getEntitiesByTag(tagName) raises no error and returns, once each,
\* exactly the entities linked to tagName; for a tag that does not exist or
\* that no entity is linked to, entities and relations are both empty.
C15_EntitiesByTag ==
    Returned("getEntitiesByTag") =>
        /\ last.error = "none"
        /\ {e.name : e \in last.result.entities} = TaggedNames(last.pre, last.args)
        /\ Cardinality(last.result.entities) =
               Cardinality(TaggedNames(last.pre, last.args))
        /\ TaggedNames(last.pre, last.args) = {} =>
               /\ last.result.entities = {}
               /\ DOMAIN last.result.relations = {}

\* getEntitiesByTag returned an entity (linked to the tag by two edges) and
\* left out a live entity that carries another tag only.
C15_Witness ==
    /\ Returned("getEntitiesByTag")
    /\ \E e \in last.result.entities :
           last.pre.ENTITY_TAGGED_WITH[<<e.name, last.args>>] = 2
    /\ \E x \in last.pre.Entity :
           /\ TagsOf(last.pre, x.name) # {}
           /\ last.args \notin TagsOf(last.pre, x.name)

\* C16: each entity that getEntitiesByTag(tagName) returns carries every
\* tag linked to it, not only tagName.
C16_FullTagList ==
    Returned("getEntitiesByTag") =>
        \A e \in last.result.entities : e.tags = TagsOf(last.pre, e.name)

----------------------------------------------------------------------------
(* C17 *)

\* C17: readGraph returns every live entity once, each with all of its
\* observation contents and all of its tag names (empty lists when it has
\* none), every stored relation, and every tag.
C17_ReadGraphComplete ==
    Returned("readGraph") =>
        /\ {e.name : e \in last.result.entities} = LiveNames(last.pre)
        /\ Cardinality(last.result.entities) = Cardinality(last.pre.Entity)
        /\ \A e \in last.result.entities :
               /\ [name |-> e.name, entityType |-> e.entityType] \in last.pre.Entity
               /\ e.observations = ObservationsOf(last.pre, e.name)
               /\ e.tags = TagsOf(last.pre, e.name)
        /\ {Triple(r) : r \in DOMAIN last.result.relations} = DOMAIN last.pre.RELATED_TO
        /\ \A r \in DOMAIN last.result.relations :
               last.result.relations[r] = last.pre.RELATED_TO[Triple(r)]
        /\ {t.name : t \in Range(last.result.tags)} = {t.name : t \in last.pre.Tag}
        /\ Len(last.result.tags) = Cardinality(last.pre.Tag)

\* readGraph returned an entity with no observation and no tag next to one
\* that has both, and a relation.
C17_Witness ==
    /\ Returned("readGraph")
    /\ \E e \in last.result.entities : e.observations = {} /\ e.tags = {}
    /\ \E e \in last.result.entities : e.observations # {} /\ e.tags # {}
    /\ DOMAIN last.result.relations # {}

----------------------------------------------------------------------------
(* C18, C19 *)

\* C18: tagEntity on a name that is no entity raises the not-found error
\* and leaves the graph as it was: no tag is created and no link is added.
C18_TagMissingEntity ==
    (Returned("tagEntity") /\ last.args.entityName \notin LiveNames(last.pre)) =>
        /\ last.error = "NotFound"
        /\ db = last.pre

\* tagEntity named a missing entity and a tag that does not exist yet.
C18_Witness ==
    /\ Returned("tagEntity")
    /\ last.args.entityName \notin LiveNames(last.pre)
    /\ \E t \in Range(last.args.tagNames) : MatchTag(last.pre, t) = {}

\* The position of the first occurrence of each element of list.
FirstOccurrences(list) ==
    {i \in 1..Len(list) : \A j \in 1..(i - 1) : list[j] # list[i]}

\* C19: tagEntity on a live entity raises no error, creates each named tag
\* that is absent (without category and description), adds one link to each
\* named tag the entity was not linked to and leaves every other link and
\* node alone; it returns, once each and in call order, exactly the names
\* whose link it added; afterwards getAllTags lists each named tag and
\* getTagUsage counts the entity among the entities of each.
C19_TagEntity ==
    (Returned("tagEntity") /\ last.args.entityName \in LiveNames(last.pre)) =>
        LET name == last.args.entityName
            named == Range(last.args.tagNames)
            fresh == {t \in named : Copies(last.pre.ENTITY_TAGGED_WITH, <<name, t>>) = 0}
        IN
        /\ last.error = "none"
        /\ db.Tag = last.pre.Tag \cup
               {[name |-> t, category |-> <<>>, description |-> <<>>] :
                   t \in {x \in named : MatchTag(last.pre, x) = {}}}
        /\ DOMAIN db.ENTITY_TAGGED_WITH =
               DOMAIN last.pre.ENTITY_TAGGED_WITH \cup {<<name, t>> : t \in fresh}
        /\ \A e \in DOMAIN db.ENTITY_TAGGED_WITH :
               db.ENTITY_TAGGED_WITH[e] =
                   IF e[1] = name /\ e[2] \in fresh
                   THEN 1 ELSE last.pre.ENTITY_TAGGED_WITH[e]
        /\ [db EXCEPT !.Tag = {}, !.ENTITY_TAGGED_WITH = NoEdges] =
               [last.pre EXCEPT !.Tag = {}, !.ENTITY_TAGGED_WITH = NoEdges]
        /\ Range(last.result) = fresh
        /\ \A i, j \in DOMAIN last.result : i # j => last.result[i] # last.result[j]
        /\ \A i, j \in DOMAIN last.result : i < j =>
               \E k, l \in FirstOccurrences(last.args.tagNames) :
                   /\ k < l
                   /\ last.args.tagNames[k] = last.result[i]
                   /\ last.args.tagNames[l] = last.result[j]
        /\ named \subseteq {t.name : t \in Range(getAllTags(db))}
        /\ \A usage \in getTagUsage(db) : \A t \in named :
               \E i \in DOMAIN usage :
                   /\ usage[i].tag = t
                   /\ usage[i].entityCount = Cardinality(TaggedNames(db, t))
                   /\ name \in TaggedNames(db, t)

\* tagEntity on a live entity named a tag it was already linked to and a
\* tag that did not exist.
C19_Witness ==
    /\ Returned("tagEntity")
    /\ last.args.entityName \in LiveNames(last.pre)
    /\ \E t \in Range(last.args.tagNames) :
           Copies(last.pre.ENTITY_TAGGED_WITH, <<last.args.entityName, t>>) > 0
    /\ \E t \in Range(last.args.tagNames) : MatchTag(last.pre, t) = {}

----------------------------------------------------------------------------
(* C20 *)

\* C20: tagObservation raises no error and returns only tag names whose
\* link from an observation of the entity was added by the call; when the
\* entity name and the content resolve to no observation it returns the
\* empty list.
C20_TagObservationReports ==
    Returned("tagObservation") =>
        /\ last.error = "none"
        /\ \A t \in Range(last.result) :
               \E e \in DOMAIN db.OBSERVATION_TAGGED_WITH :
                   /\ e[2] = t
                   /\ db.OBSERVATION_TAGGED_WITH[e] >
                          Copies(last.pre.OBSERVATION_TAGGED_WITH, e)
        /\ DOMAIN OwnedRows(last.pre, last.args.entityName,
                            last.args.observationContent) = {}
               => last.result = <<>>

----------------------------------------------------------------------------
(* C21 *)

\* C21: tagObservation on an entity name and a content that resolve to no
\* observation leaves the graph as it was, so that getAllTags and
\* getTagUsage return what they returned before the call.
C21_TagMissingObservation ==
    (/\ Returned("tagObservation")
     /\ DOMAIN OwnedRows(last.pre, last.args.entityName,
                         last.args.observationContent) = {}) =>
        /\ db = last.pre
        /\ getAllTags(db) = getAllTags(last.pre)
        /\ getTagUsage(db) = getTagUsage(last.pre)

----------------------------------------------------------------------------
(* C22 *)

\* C22: removeTagsFromEntity raises no error, removes the link from the
\* entity to each named tag and nothing else, and returns, once each and in
\* call order, exactly the names whose link existed before the call; a name
\* that was not linked, an unknown tag and an unknown entity are not
\* reported; afterwards the entity has none of the named tags.
C22_RemoveTags ==
    Returned("removeTagsFromEntity") =>
        LET name == last.args.entityName
            named == Range(last.args.tagNames)
            linked == {t \in named : Copies(last.pre.ENTITY_TAGGED_WITH, <<name, t>>) > 0}
        IN
        /\ last.error = "none"
        /\ Range(last.result) = linked
        /\ \A i, j \in DOMAIN last.result : i # j => last.result[i] # last.result[j]
        /\ \A i, j \in DOMAIN last.result : i < j =>
               \E k, l \in FirstOccurrences(last.args.tagNames) :
                   /\ k < l
                   /\ last.args.tagNames[k] = last.result[i]
                   /\ last.args.tagNames[l] = last.result[j]
        /\ db.ENTITY_TAGGED_WITH =
               KeepEdges(last.pre.ENTITY_TAGGED_WITH,
                         {e \in DOMAIN last.pre.ENTITY_TAGGED_WITH :
                             ~(e[1] = name /\ e[2] \in named)})
        /\ [db EXCEPT !.ENTITY_TAGGED_WITH = NoEdges] =
               [last.pre EXCEPT !.ENTITY_TAGGED_WITH = NoEdges]
        /\ TagsOf(db, name) \cap named = {}

\* removeTagsFromEntity named a tag the entity was linked to and a tag that
\* does not exist.
C22_Witness ==
    /\ Returned("removeTagsFromEntity")
    /\ Len(last.result) = 1
    /\ Len(last.args.tagNames) = 2
    /\ \E t \in Range(last.args.tagNames) : MatchTag(last.pre, t) = {}

----------------------------------------------------------------------------
(* C23 *)

\* The observation nodes of d that hold a link to tag tagName.
TaggedObservations(d, tagName) ==
    {o \in d.Observation : Copies(d.OBSERVATION_TAGGED_WITH, <<o.id, tagName>>) > 0}

\* C23: whatever calls came before, getTagUsage lists every tag once, with
\* entityCount the number of distinct entities linked to it and
\* observationCount the number of distinct observations linked to it.
C23_TagUsage ==
    Returned("getTagUsage") =>
        /\ {r.tag : r \in Range(last.result)} = {t.name : t \in last.pre.Tag}
        /\ Len(last.result) = Cardinality(last.pre.Tag)
        /\ \A r \in Range(last.result) :
               /\ r.entityCount = Cardinality(TaggedNames(last.pre, r.tag))
               /\ r.observationCount =
                      Cardinality(TaggedObservations(last.pre, r.tag))

\* getTagUsage listed two tags: one linked to an entity by two edges, one
\* linked to an observation only.
C23_Witness ==
    /\ Returned("getTagUsage")
    /\ \E r \in Range(last.result) :
           /\ r.entityCount = 1
           /\ \E e \in DOMAIN last.pre.ENTITY_TAGGED_WITH :
                  e[2] = r.tag /\ last.pre.ENTITY_TAGGED_WITH[e] = 2
    /\ \E r \in Range(last.result) : r.entityCount = 0 /\ r.observationCount = 1

----------------------------------------------------------------------------
(* C24 *)

\* The elements of list at the positions P, in the order of the list.
Pick(list, P) ==
    [k \in 1..Cardinality(P) |->
        list[CHOOSE i \in P : Cardinality({j \in P : j < i}) = k - 1]]

\* The positions of tags that createTags creates from graph d: the first
\* mention of each name that d does not hold.
CreatedPositions(d, tags) ==
    {i \in 1..Len(tags) :
        /\ MatchTag(d, tags[i].name) = {}
        /\ \A j \in 1..(i - 1) : tags[j].name # tags[i].name}

\* C24: createTags raises no error, leaves a tag whose name exists as it is
\* stored and does not return it, creates every other tag and returns
\* exactly the tags it created; a field not given is stored as the empty
\* string, and getAllTags then lists the tags by ascending name with every
\* empty field absent.
C24_CreateTags ==
    Returned("createTags") =>
        LET created == CreatedPositions(last.pre, last.args) IN
        /\ last.error = "none"
        /\ last.result = Pick(last.args, created)
        /\ db.Tag = last.pre.Tag \cup
               {[name |-> last.args[i].name,
                 category |-> OrEmpty(last.args[i].category),
                 description |-> OrEmpty(last.args[i].description)] : i \in created}
        /\ [db EXCEPT !.Tag = {}] = [last.pre EXCEPT !.Tag = {}]
        /\ LET tags == getAllTags(db) IN
           /\ Len(tags) = Cardinality(db.Tag)
           /\ \A i, j \in DOMAIN tags : i < j => Precedes(tags[i].name, tags[j].name)
           /\ \A i \in created : \E k \in DOMAIN tags :
                  /\ tags[k].name = last.args[i].name
                  /\ tags[k].category = last.args[i].category
                  /\ tags[k].description = last.args[i].description

\* createTags was given a stored name with another category (skipped) and
\* a new name without category that sorts before it.
C24_Witness ==
    /\ Returned("createTags")
    /\ Len(last.args) = 2
    /\ Len(last.result) = 1
    /\ last.result[1].category = <<>>
    /\ \E t \in last.pre.Tag : \E i \in DOMAIN last.args :
           /\ last.args[i].name = t.name
           /\ OrEmpty(last.args[i].category) # t.category
           /\ Precedes(last.result[1].name, t.name)

----------------------------------------------------------------------------
(* Longer behaviours over the tools that make and sweep unowned            *)
(* observations: create_entities with one untagged entity, tag_observation  *)
(* with one tag, delete_entities with one name.                             *)

\* Total number of items that the calls of one such behaviour submit.
MaxSweepItems == 8

SweepEntities ==
    {<<e>> : e \in {x \in EntityInputs : x.entityType = <<"p">> /\ x.tags = <<>>}}

sweep_create_entities ==
    /\ last = Idle
    /\ \E entities \in SweepEntities :
          /\ items + SumWeights(EntityWeight, entities) <= MaxSweepItems
          /\ Call("createEntities", entities, createEntities(db, entities),
                  SumWeights(EntityWeight, entities))

sweep_tag_observation ==
    /\ last = Idle
    /\ items + 1 <= MaxSweepItems
    /\ \E entityName \in Names, observationContent \in Contents :
          Call("tagObservation",
               [entityName |-> entityName,
                observationContent |-> observationContent,
                tagNames |-> << <<"t">> >>],
               tagObservation(db, entityName, observationContent, << <<"t">> >>),
               1)

sweep_delete_entities ==
    /\ last = Idle
    /\ items + 1 <= MaxSweepItems
    /\ \E entityName \in Names :
          Call("deleteEntities", <<entityName>>,
               deleteEntities(db, <<entityName>>), 1)

\* The client follows a delete_entities call with a create_entities call for
\* one of the names it has just deleted; after keeps the delete call.
sweep_recreate ==
    /\ last # Idle
    /\ last.op = "deleteEntities"
    /\ \E entities \in SweepEntities :
          /\ entities[1].name \in Range(last.args)
          /\ items + SumWeights(EntityWeight, entities) <= MaxSweepItems
          /\ LET r == createEntities(db, entities) IN
                /\ db' = r.db
                /\ last' = [op |-> "createEntities", args |-> entities,
                            pre |-> db, result |-> r.result, error |-> r.error,
                            after |-> last]
          /\ items' = items + SumWeights(EntityWeight, entities)
    /\ UNCHANGED <<proc, inflight>>

NextSweep ==
    \/ sweep_create_entities
    \/ sweep_recreate
    \/ sweep_tag_observation
    \/ sweep_delete_entities
    \/ Respond

SpecSweep == Init /\ [][NextSweep]_vars

----------------------------------------------------------------------------
(* main(): start-up, service, shutdown *)

\* The manager is constructed and main() is about to call initialize().
Starting ==
    [phase |-> "initializing", schema |-> 0, closes |-> 0, exit |-> "none",
     initFailed |-> FALSE]

InitMain ==
    /\ db = EmptyDb
    /\ last = Idle
    /\ items = 0
    /\ proc = Starting
    /\ inflight = NoRequests

\* knowledgeGraphManager.close(); process.exit(status)
CloseAndExit(status) ==
    [proc EXCEPT !.phase = "exited", !.closes = @ + 1, !.exit = status]

\* One schema statement of initialize() succeeds; after the last one
\* initialize() returns and main() calls server.connect().
InitializeStep ==
    /\ proc.phase = "initializing"
    /\ proc' = [proc EXCEPT !.schema = @ + 1,
                            !.phase = IF proc.schema + 1 = SchemaStatements
                                      THEN "connecting" ELSE @]
    /\ UNCHANGED <<db, last, items, inflight>>

InitializeFails_Logged ==
    /\ proc.phase = "initializing"
    /\ proc' = [proc EXCEPT !.initFailed = TRUE, !.phase = "connecting"]
    /\ UNCHANGED <<db, last, items, inflight>>

\* A schema statement throws: initialize() rethrows, main() rejects, and the
\* catch of main() closes the manager and exits with status 1.
InitializeFails ==
    /\ proc.phase = "initializing"
    /\ proc' = [CloseAndExit("1") EXCEPT !.initFailed = TRUE]
    /\ UNCHANGED <<db, last, items, inflight>>

\* await server.connect(transport) resolves; main() registers cleanup for
\* SIGINT and SIGTERM in the same turn.
Connect ==
    /\ proc.phase = "connecting"
    /\ proc' = [proc EXCEPT !.phase = "serving"]
    /\ UNCHANGED <<db, last, items, inflight>>

\* server.connect() rejects: the catch of main() closes and exits.
ConnectFails ==
    /\ proc.phase = "connecting"
    /\ proc' = CloseAndExit("1")
    /\ UNCHANGED <<db, last, items, inflight>>

\* SIGINT or SIGTERM after process.on(...): cleanup closes and exits.
SignalHandled ==
    /\ proc.phase = "serving"
    /\ proc' = CloseAndExit("0")
    /\ UNCHANGED <<db, last, items, inflight>>

\* SIGINT or SIGTERM before process.on(...): no listener is registered, and
\* the runtime ends the process at once.
SignalDefault ==
    /\ proc.phase \in {"initializing", "connecting"}
    /\ proc' = [proc EXCEPT !.phase = "exited", !.exit = "signal"]
    /\ UNCHANGED <<db, last, items, inflight>>

\* Requests are handled while the transport is connected.
Serve ==
    /\ proc.phase = "serving"
    /\ \/ create_tags
       \/ get_all_tags
       \/ Respond

NextMain ==
    \/ InitializeStep
    \/ InitializeFails
    \/ Connect
    \/ ConnectFails
    \/ SignalHandled
    \/ SignalDefault
    \/ Serve

SpecMain == InitMain /\ [][NextMain]_vars

----------------------------------------------------------------------------
(* C28, C29 *)

\* C28: however the process ends (start-up failure, SIGINT or SIGTERM, also
\* a signal during initialization), close() has been called exactly once.
C28_ClosedExactlyOnce ==
    proc.phase = "exited" => proc.closes = 1

\* C29: when a schema statement of initialize() fails the process exits
\* with status 1 and has served no tool call; requests are served only
\* with the transport connected, after initialize() ran all its statements
\* without failure.
C29_InitFailureIsFatal ==
    /\ proc.initFailed =>
           /\ proc.phase = "exited"
           /\ proc.exit = "1"
           /\ last = Idle /\ db = EmptyDb /\ items = 0
    /\ (proc.phase = "serving" \/ last # Idle) =>
           /\ proc.schema = SchemaStatements
           /\ ~proc.initFailed

\* initialize() failed after some of its statements had succeeded.
C29_Witness ==
    /\ proc.initFailed
    /\ proc.schema \in 1..(SchemaStatements - 1)
    /\ proc.phase = "exited"

----------------------------------------------------------------------------
(* Storage faults.  A statement of the connection may fail: conn.query,    *)
(* conn.prepare or conn.execute rejects and the statement changes nothing. *)
(* One statement of a call fails: the fault-th statement the call issues   *)
(* (fault = 0: none).  The methods are followed statement by statement     *)
(* through their try blocks.                                               *)

\* The highest position of the failing statement within a call.
MaxFault == 7

\* A method in progress: the graph, the statements left before the failing
\* one (f), the error being thrown, whether the fault has happened, the item
\* that was being processed when it happened, the statements of that item
\* completed before it happened, and the method's accumulators.
Running(d, f) ==
    [db |-> d, f |-> f, error |-> "none", faulted |-> FALSE, item |-> <<>>,
     stmt |-> 0, result |-> <<>>, added |-> <<>>]

\* await this.conn.query(...): the statement leaves d2, or rejects.  Nothing
\* runs while an error is being thrown.
Run(s, d2) ==
    IF s.error # "none" THEN s
    ELSE IF s.f = 1
         THEN [s EXCEPT !.f = 0, !.error = "StorageFault", !.faulted = TRUE]
         ELSE [s EXCEPT !.db = d2, !.f = IF @ = 0 THEN 0 ELSE @ - 1,
                        !.stmt = IF s.faulted THEN @ ELSE @ + 1]

\* Mutant: the catch block throws the error again.
Caught_Rethrown(s) == s

\* catch (error) { console.error(...) }: the error is logged and dropped.
Caught(s) == [s EXCEPT !.error = "none"]

\* The loop enters item i.
AtItem(s, i) == IF s.faulted THEN s ELSE [s EXCEPT !.item = i, !.stmt = 0]

\* newEntities.push(...), reached only when nothing was thrown.
Push(s, x) == IF s.error # "none" THEN s ELSE [s EXCEPT !.result = Append(@, x)]

\* What the caller of the method sees.
Outcome(s) ==
    [db |-> s.db, result |-> IF s.error = "none" THEN s.result ELSE <<>>,
     error |-> s.error, faulted |-> s.faulted, item |-> s.item,
     stmt |-> s.stmt]

\* for (const observation of entity.observations) of createEntities
RECURSIVE AddEntityObservationsFrom(_, _, _, _)
AddEntityObservationsFrom(s, name, observations, j) ==
    IF j > Len(observations) THEN s
    ELSE LET s1 == Run(s, CreateObservation(s.db, observations[j]))
             s2 == Run(s1, LinkObservation(s1.db, name, observations[j]))
         IN AddEntityObservationsFrom(s2, name, observations, j + 1)

\* for (const tagName of entity.tags) of createEntities
RECURSIVE AddEntityTagsFrom(_, _, _, _)
AddEntityTagsFrom(s, name, tags, j) ==
    IF j > Len(tags) THEN s
    ELSE LET s1 == Run(s, s.db)
             s2 == IF s1.error = "none" /\ MatchTag(s1.db, tags[j]) = {}
                   THEN Run(s1, CreateTag(s1.db, tags[j], <<>>, <<>>))
                   ELSE s1
             s3 == Run(s2, LinkEntityTag(s2.db, name, tags[j]))
         IN AddEntityTagsFrom(s3, name, tags, j + 1)

\* createEntities: the whole item is in one try block whose catch throws the
\* error again, which ends the loop.
RECURSIVE createEntitiesFrom(_, _, _)
createEntitiesFrom(s, entities, i) ==
    IF i > Len(entities) \/ s.error # "none" THEN s
    ELSE LET entity == entities[i]
             s1 == Run(AtItem(s, <<i>>), s.db)
             s2 == IF s1.error = "none" /\ EntityIsNew(s1.db, entity.name)
                   THEN Push(
                            AddEntityTagsFrom(
                                AddEntityObservationsFrom(
                                    Run(s1, CreateEntity(s1.db, entity.name,
                                                         entity.entityType)),
                                    entity.name, entity.observations, 1),
                                entity.name, entity.tags, 1),
                            entity)
                   ELSE s1
         IN createEntitiesFrom(s2, entities, i + 1)

\* Mutant: a call that throws leaves the graph as it found it.
createEntitiesWithFault_RolledBack(d, entities, f) ==
    LET r == Outcome(createEntitiesFrom(Running(d, f), entities, 1)) IN
    IF r.error = "none" THEN r ELSE [r EXCEPT !.db = d]

createEntitiesWithFault(d, entities, f) ==
    Outcome(createEntitiesFrom(Running(d, f), entities, 1))

\* createRelations: check, create, push in one try block whose catch throws
\* the error again.
RECURSIVE createRelationsFrom(_, _, _)
createRelationsFrom(s, relations, i) ==
    IF i > Len(relations) \/ s.error # "none" THEN s
    ELSE LET relation == relations[i]
             s1 == Run(AtItem(s, <<i>>), s.db)
             s2 == IF s1.error = "none" /\ MatchRelation(s1.db, relation) = 0
                   THEN Push(Run(s1, CreateRelation(s1.db, relation)), relation)
                   ELSE s1
         IN createRelationsFrom(s2, relations, i + 1)

createRelationsWithFault(d, relations, f) ==
    Outcome(createRelationsFrom(Running(d, f), relations, 1))

\* for (const content of obs.contents) of addObservations: each content has
\* a try block of its own, whose catch logs the error.
RECURSIVE addContentsFrom(_, _, _, _, _)
addContentsFrom(s, entityName, contents, i, j) ==
    IF j > Len(contents) THEN s
    ELSE LET content == contents[j]
             s1 == Run(AtItem(s, <<i, j>>), s.db)
             s2 == IF s1.error = "none"
                      /\ ObservationIsNew(s1.db, Literal(entityName), Literal(content))
                   THEN LET a == Run(s1, CreateObservation(s1.db, Literal(content)))
                            b == Run(a, LinkObservationIfUnlinked(
                                            a.db, Literal(entityName), Literal(content)))
                        IN IF b.error = "none"
                           THEN [b EXCEPT !.added = Append(@, content)] ELSE b
                   ELSE s1
         IN addContentsFrom(Caught(s2), entityName, contents, i, j + 1)

\* addObservations: the entity check is in the outer try block, whose catch
\* throws the error again.
RECURSIVE addObservationsFrom(_, _, _)
addObservationsFrom(s, observations, i) ==
    IF i > Len(observations) \/ s.error # "none" THEN s
    ELSE LET obs == observations[i]
             s1 == Run(AtItem(s, <<i, 0>>), s.db)
         IN IF s1.error # "none" THEN s1
            ELSE IF EntityMissing(s1.db, Literal(obs.entityName))
            THEN [s1 EXCEPT !.error = "NotFound"]
            ELSE LET s2 == addContentsFrom([s1 EXCEPT !.added = <<>>],
                                           obs.entityName, obs.contents, i, 1)
                 IN addObservationsFrom(
                        Push(s2, [entityName |-> obs.entityName,
                                  addedObservations |-> s2.added]),
                        observations, i + 1)

addObservationsWithFault(d, observations, f) ==
    Outcome(addObservationsFrom(Running(d, f), observations, 1))

\* for (const tagName of tagNames) of tagEntity: each tag has a try block of
\* its own, whose catch logs the error.
RECURSIVE tagEntityFrom(_, _, _, _)
tagEntityFrom(s, entityName, tagNames, i) ==
    IF i > Len(tagNames) THEN s
    ELSE LET tagName == tagNames[i]
             s1 == Run(AtItem(s, <<i>>), s.db)
             s2 == IF s1.error = "none" /\ MatchTag(s1.db, Literal(tagName)) = {}
                   THEN Run(s1, CreateTag(s1.db, Literal(tagName), <<>>, <<>>))
                   ELSE s1
             s3 == Run(s2, s2.db)
             s4 == IF s3.error = "none"
                      /\ Copies(s3.db.ENTITY_TAGGED_WITH,
                                <<Literal(entityName), Literal(tagName)>>) = 0
                   THEN Push(Run(s3, LinkEntityTag(s3.db, Literal(entityName),
                                                   Literal(tagName))),
                             tagName)
                   ELSE s3
         IN tagEntityFrom(Caught(s4), entityName, tagNames, i + 1)

\* tagEntity: the entity check is in the outer try block, whose catch throws
\* the error again.
tagEntityWithFault(d, entityName, tagNames, f) ==
    LET s1 == Run(AtItem(Running(d, f), <<0>>), d) IN
    IF s1.error # "none" THEN Outcome(s1)
    ELSE IF MatchEntity(s1.db, Literal(entityName)) = {}
    THEN Outcome([s1 EXCEPT !.error = "NotFound"])
    ELSE Outcome(tagEntityFrom(s1, entityName, tagNames, 1))

\* deleteEntities: both statements of a name are in one try block, whose
\* catch logs the error.
RECURSIVE deleteEntitiesFrom(_, _, _)
deleteEntitiesFrom(s, entityNames, i) ==
    IF i > Len(entityNames) THEN s
    ELSE LET s1 == Run(AtItem(s, <<i>>),
                       DetachDeleteEntity(s.db, Literal(entityNames[i])))
             s2 == Run(s1, DeleteOrphans(s1.db))
         IN deleteEntitiesFrom(Caught(s2), entityNames, i + 1)

deleteEntitiesWithFault(d, entityNames, f) ==
    Outcome(deleteEntitiesFrom(Running(d, f), entityNames, 1))

\* for (const observation of deletion.observations): one try block each
RECURSIVE deleteContentsFrom(_, _, _, _, _)
deleteContentsFrom(s, entityName, observations, i, j) ==
    IF j > Len(observations) THEN s
    ELSE deleteContentsFrom(
             Caught(Run(AtItem(s, <<i, j>>),
                        DetachDeleteObservation(s.db, Literal(entityName),
                                                Literal(observations[j])))),
             entityName, observations, i, j + 1)

RECURSIVE deleteObservationsFrom(_, _, _)
deleteObservationsFrom(s, deletions, i) ==
    IF i > Len(deletions) THEN s
    ELSE deleteObservationsFrom(
             deleteContentsFrom(s, deletions[i].entityName,
                                deletions[i].observations, i, 1),
             deletions, i + 1)

deleteObservationsWithFault(d, deletions, f) ==
    Outcome(deleteObservationsFrom(Running(d, f), deletions, 1))

\* deleteRelations: one statement per relation, in a try block of its own
RECURSIVE deleteRelationsFrom(_, _, _)
deleteRelationsFrom(s, relations, i) ==
    IF i > Len(relations) THEN s
    ELSE deleteRelationsFrom(
             Caught(Run(AtItem(s, <<i>>), DeleteRelation(s.db, relations[i]))),
             relations, i + 1)

deleteRelationsWithFault(d, relations, f) ==
    Outcome(deleteRelationsFrom(Running(d, f), relations, 1))

\* removeTagsFromEntity: one statement per tag (DELETE r RETURN t.name), in a
\* try block of its own; the tag is pushed when the statement returned a row.
RECURSIVE removeTagsFrom(_, _, _, _)
removeTagsFrom(s, entityName, tagNames, i) ==
    IF i > Len(tagNames) THEN s
    ELSE LET edge == <<Literal(entityName), Literal(tagNames[i])>>
             s1 == Run(AtItem(s, <<i>>),
                       [s.db EXCEPT !.ENTITY_TAGGED_WITH =
                                        KeepEdges(@, DOMAIN @ \ {edge})])
             s2 == IF Copies(s.db.ENTITY_TAGGED_WITH, edge) > 0
                   THEN Push(s1, tagNames[i]) ELSE s1
         IN removeTagsFrom(Caught(s2), entityName, tagNames, i + 1)

removeTagsFromEntityWithFault(d, entityName, tagNames, f) ==
    Outcome(removeTagsFrom(Running(d, f), entityName, tagNames, 1))

Faults == 0..MaxFault

\* The handler ran method op on args while statement f failed (f = 0: none
\* did); a position beyond the statements the call issues is not a fault.
FaultyCall(op, args, f, r, weight) ==
    /\ f = 0 \/ r.faulted
    /\ db' = r.db
    /\ last' = [op |-> op, args |-> args, pre |-> db, result |-> r.result,
                error |-> r.error, fault |-> f, item |-> r.item,
                stmt |-> r.stmt]
    /\ items' = items + weight
    /\ UNCHANGED <<proc, inflight>>

create_entities_fault ==
    /\ last = Idle
    /\ \E entities \in EntitiesArgs[MaxItems - items], f \in Faults :
          FaultyCall("createEntities", entities, f,
                     createEntitiesWithFault(db, entities, f),
                     SumWeights(EntityWeight, entities))

create_relations_fault ==
    /\ last = Idle
    /\ \E relations \in RelationsArgs[MaxItems - items], f \in Faults :
          FaultyCall("createRelations", relations, f,
                     createRelationsWithFault(db, relations, f), Len(relations))

add_observations_fault ==
    /\ last = Idle
    /\ \E observations \in ObservationsArgs[MaxItems - items], f \in Faults :
          FaultyCall("addObservations", observations, f,
                     addObservationsWithFault(db, observations, f),
                     SumWeights(AdditionWeight, observations))

tag_entity_fault ==
    /\ last = Idle
    /\ \E entityName \in Names, tagNames \in TagNamesArgs[MaxItems - items],
          f \in Faults :
          FaultyCall("tagEntity",
                     [entityName |-> entityName, tagNames |-> tagNames], f,
                     tagEntityWithFault(db, entityName, tagNames, f),
                     Len(tagNames))

delete_entities_fault ==
    /\ last = Idle
    /\ \E entityNames \in EntityNamesArgs[MaxItems - items], f \in Faults :
          FaultyCall("deleteEntities", entityNames, f,
                     deleteEntitiesWithFault(db, entityNames, f),
                     Len(entityNames))

delete_observations_fault ==
    /\ last = Idle
    /\ \E deletions \in DeletionsArgs[MaxItems - items], f \in Faults :
          FaultyCall("deleteObservations", deletions, f,
                     deleteObservationsWithFault(db, deletions, f),
                     SumWeights(DeletionWeight, deletions))

delete_relations_fault ==
    /\ last = Idle
    /\ \E relations \in RelationsArgs[MaxItems - items], f \in Faults :
          FaultyCall("deleteRelations", relations, f,
                     deleteRelationsWithFault(db, relations, f), Len(relations))

remove_tags_from_entity_fault ==
    /\ last = Idle
    /\ \E entityName \in Names, tagNames \in TagNamesArgs[MaxItems - items],
          f \in Faults :
          FaultyCall("removeTagsFromEntity",
                     [entityName |-> entityName, tagNames |-> tagNames], f,
                     removeTagsFromEntityWithFault(db, entityName, tagNames, f),
                     Len(tagNames))

\* The client answers the error of create_entities by sending the same
\* request again (the same items: none is added to the count); no statement
\* fails this time.  retryOf keeps where the first attempt failed.
retry_create_entities ==
    /\ last # Idle
    /\ last.op = "createEntities"
    /\ last.error = "StorageFault"
    /\ LET r == createEntitiesWithFault(db, last.args, 0) IN
          /\ db' = r.db
          /\ last' = [op |-> "createEntities", args |-> last.args, pre |-> db,
                      result |-> r.result, error |-> r.error, fault |-> 0,
                      item |-> r.item, stmt |-> r.stmt,
                      retryOf |-> [item |-> last.item, stmt |-> last.stmt]]
    /\ UNCHANGED <<items, proc, inflight>>

NextFaults ==
    \/ create_entities_fault
    \/ retry_create_entities
    \/ create_relations_fault
    \/ add_observations_fault
    \/ tag_entity_fault
    \/ delete_entities_fault
    \/ delete_observations_fault
    \/ delete_relations_fault
    \/ remove_tags_from_entity_fault
    \/ Respond

SpecFaults == Init /\ [][NextFaults]_vars

\* Without a fault the statement-level methods are the methods above.
FaultFreeAgrees ==
    (last # Idle /\ last.fault = 0) =>
        LET r == CASE last.op = "createEntities" -> createEntities(last.pre, last.args)
                   [] last.op = "createRelations" -> createRelations(last.pre, last.args)
                   [] last.op = "addObservations" -> addObservations(last.pre, last.args)
                   [] last.op = "tagEntity" ->
                        tagEntity(last.pre, last.args.entityName, last.args.tagNames)
                   [] last.op = "deleteEntities" -> deleteEntities(last.pre, last.args)
                   [] last.op = "deleteObservations" ->
                        deleteObservations(last.pre, last.args)
                   [] last.op = "deleteRelations" -> deleteRelations(last.pre, last.args)
                   [] last.op = "removeTagsFromEntity" ->
                        removeTagsFromEntity(last.pre, last.args.entityName,
                                             last.args.tagNames)
        IN /\ db = r.db
           /\ last.result = r.result
           /\ last.error = r.error

----------------------------------------------------------------------------
(* Requests that arrive while a handler is suspended.  The handler is an   *)
(* async function: it runs until its next await, and each awaited           *)
(* statement of the connection completes in a later turn.  Nothing in the   *)
(* handler or in the manager makes a request wait for the one before it.    *)

\* Requests that arrive in one behaviour.
MaxRequests == 2

\* The graph the requests find: createEntities has stored both names.
OverlapEntities ==
    << [name |-> <<"A">>, entityType |-> <<"p">>, observations |-> <<>>, tags |-> <<>>],
       [name |-> <<"B", Q>>, entityType |-> <<"p">>, observations |-> <<>>, tags |-> <<>>] >>

InitOverlap ==
    /\ db = createEntities(EmptyDb, OverlapEntities).db
    /\ last = Idle
    /\ items = 0
    /\ proc = Serving
    /\ inflight = NoRequests

\* Each request names one relation.
OverlapArgs == {<<r>> : r \in RelationInputs}

\* The statement at which a handler over relations waits next.
FirstStatement(op, relations) ==
    IF relations = <<>> THEN "done"
    ELSE IF op = "createRelations" THEN "check" ELSE "delete"

\* A create_relations or delete_relations request arrives: its handler
\* starts and is suspended at its first statement.
Arrive ==
    /\ Len(inflight.tasks) < MaxRequests
    /\ \E op \in {"createRelations", "deleteRelations"}, relations \in OverlapArgs :
          inflight' = [inflight EXCEPT !.tasks =
              Append(@, [op |-> op, relations |-> relations,
                         pc |-> FirstStatement(op, relations), result |-> <<>>])]
    /\ UNCHANGED <<db, last, items, proc>>

\* The existence check of createRelations completes for handler i.
CheckCompletes(i) ==
    LET task == inflight.tasks[i]
        relation == Head(task.relations)
    IN
    /\ task.pc = "check"
    /\ inflight' = [inflight EXCEPT
           !.log = Append(@, i),
           !.tasks[i] =
               IF MatchRelation(db, relation) = 0
               THEN [task EXCEPT !.pc = "create"]
               ELSE [task EXCEPT !.relations = Tail(@),
                                 !.pc = FirstStatement(task.op, Tail(task.relations))]]
    /\ UNCHANGED <<db, last, items, proc>>

\* The create statement of createRelations completes for handler i, which
\* pushes the relation to newRelations.
CreateCompletes(i) ==
    LET task == inflight.tasks[i]
        relation == Head(task.relations)
    IN
    /\ task.pc = "create"
    /\ db' = CreateRelation(db, relation)
    /\ inflight' = [inflight EXCEPT
           !.log = Append(@, i),
           !.tasks[i] = [task EXCEPT
               !.relations = Tail(@),
               !.pc = FirstStatement(task.op, Tail(task.relations)),
               !.result = Append(@, relation)]]
    /\ UNCHANGED <<last, items, proc>>

\* The delete statement of deleteRelations completes for handler i.
DeleteCompletes(i) ==
    LET task == inflight.tasks[i]
        relation == Head(task.relations)
    IN
    /\ task.pc = "delete"
    /\ db' = DeleteRelation(db, relation)
    /\ inflight' = [inflight EXCEPT
           !.log = Append(@, i),
           !.tasks[i] = [task EXCEPT
               !.relations = Tail(@),
               !.pc = FirstStatement(task.op, Tail(task.relations))]]
    /\ UNCHANGED <<last, items, proc>>

NextOverlap ==
    \/ Arrive
    \/ \E i \in DOMAIN inflight.tasks : CheckCompletes(i)
    \/ \E i \in DOMAIN inflight.tasks : CreateCompletes(i)
    \/ \E i \in DOMAIN inflight.tasks : DeleteCompletes(i)

SpecOverlap == InitOverlap /\ [][NextOverlap]_vars

----------------------------------------------------------------------------
(* C25, C26 *)

DeletePath ==
    {"deleteEntities", "deleteObservations", "deleteRelations",
     "removeTagsFromEntity"}

CreatePath == {"createEntities", "createRelations", "addObservations", "tagEntity"}

\* The statement that failed belonged to the item at position pos.
Failed(pos) == last.fault > 0 /\ last.item = pos

\* The item at position pos of the delete call has been processed: what it
\* names is gone from the graph.
Deleted(pos) ==
    CASE last.op = "deleteEntities" ->
           MatchEntity(db, Literal(last.args[pos[1]])) = {}
      [] last.op = "deleteObservations" ->
           DOMAIN OwnedRows(db, Literal(last.args[pos[1]].entityName),
                            Literal(last.args[pos[1]].observations[pos[2]])) = {}
      [] last.op = "deleteRelations" ->
           LET relation == last.args[pos[1]] IN
           Copies(db.RELATED_TO, <<Literal(relation.from), Literal(relation.to),
                                   Literal(relation.relationType)>>) = 0
      [] last.op = "removeTagsFromEntity" ->
           Copies(db.ENTITY_TAGGED_WITH,
                  <<Literal(last.args.entityName),
                    Literal(last.args.tagNames[pos[1]])>>) = 0

\* The positions of the items of the delete call.
Positions ==
    CASE last.op = "deleteObservations" ->
           {<<i, j>> : i \in DOMAIN last.args, j \in 1..MaxLen} \cap
           UNION {{<<i, j>> : j \in DOMAIN last.args[i].observations} :
                     i \in DOMAIN last.args}
      [] last.op = "removeTagsFromEntity" ->
           {<<i>> : i \in DOMAIN last.args.tagNames}
      [] OTHER -> {<<i>> : i \in DOMAIN last.args}

\* C25: deleteEntities, deleteObservations, deleteRelations and
\* removeTagsFromEntity never surface an error, and when a statement fails on
\* one item every other item of the call is still processed.
C25_DeletePathPolicy ==
    (last # Idle /\ last.op \in DeletePath) =>
        /\ last.error = "none"
        /\ \A pos \in Positions : ~Failed(pos) => Deleted(pos)

\* deleteEntities of two live entities failed on the first name, which is
\* still stored, and went on to delete the second.
C25_Witness ==
    /\ last # Idle
    /\ last.op = "deleteEntities"
    /\ Len(last.args) = 2
    /\ Failed(<<1>>)
    /\ MatchEntity(db, Literal(last.args[1])) # {}
    /\ MatchEntity(last.pre, Literal(last.args[2])) # {}
    /\ MatchEntity(db, Literal(last.args[2])) = {}

\* The graph the create call leaves when it is given only the items up to
\* and including the one on which the statement failed.
UpToFailure ==
    LET n == last.item[1] IN
    CASE last.op = "createEntities" ->
           createEntitiesWithFault(last.pre, SubSeq(last.args, 1, n), last.fault).db
      [] last.op = "createRelations" ->
           createRelationsWithFault(last.pre, SubSeq(last.args, 1, n), last.fault).db
      [] last.op = "addObservations" ->
           addObservationsWithFault(
               last.pre,
               SubSeq(last.args, 1, n - 1) \o
                   << [last.args[n] EXCEPT
                          !.contents = SubSeq(@, 1, last.item[2])] >>,
               last.fault).db
      [] last.op = "tagEntity" ->
           tagEntityWithFault(last.pre, last.args.entityName,
                              SubSeq(last.args.tagNames, 1, n), last.fault).db

\* C26: in createEntities, createRelations, addObservations and tagEntity a
\* statement that fails on an item is propagated to the caller as an error,
\* and the items after it are not processed.
C26_CreatePathPolicy ==
    (last # Idle /\ last.op \in CreatePath /\ last.fault > 0) =>
        /\ last.error = "StorageFault"
        /\ db = UpToFailure

----------------------------------------------------------------------------
(* C27 *)

\* C27: the statements of two requests never interleave: between two
\* statements of one handler no statement of another handler runs.
C27_NoInterleaving ==
    \A i, j, k \in DOMAIN inflight.log :
        (i < j /\ j < k /\ inflight.log[i] = inflight.log[k])
            => inflight.log[j] = inflight.log[i]

----------------------------------------------------------------------------
(* C30 *)

\* C30: deleteEntities given only names that are no entity raises no error
\* and leaves the graph (entities, observations, relations, tags and every
\* link) as it was.
C30_DeleteUnknownIsNoOp ==
    (/\ Returned("deleteEntities")
     /\ Range(last.args) \cap LiveNames(last.pre) = {}) =>
        /\ last.error = "none"
        /\ db = last.pre

----------------------------------------------------------------------------
(* C31 *)

\* The triples a deleteRelations call names.
NamedTriples == {<<r.from, r.to, r.relationType>> : r \in Range(last.args)}

\* C31: deleteRelations removes exactly the named triples and raises no
\* error: every other relation (another relationType, swapped endpoints) is
\* kept, a triple that is not stored changes nothing, and entities,
\* observations and tags with their links are unchanged.
C31_DeleteRelationsExact ==
    Returned("deleteRelations") =>
        /\ last.error = "none"
        /\ db.RELATED_TO =
               KeepEdges(last.pre.RELATED_TO,
                         DOMAIN last.pre.RELATED_TO \ NamedTriples)
        /\ [db EXCEPT !.RELATED_TO = last.pre.RELATED_TO] = last.pre

\* A stored triple was removed while a relation between the same endpoints
\* with another relationType stays, and the call also named a triple that
\* was not stored.
C31_Witness ==
    /\ Returned("deleteRelations")
    /\ \E e \in DOMAIN last.pre.RELATED_TO \cap NamedTriples :
          \E k \in DOMAIN db.RELATED_TO : k[1] = e[1] /\ k[2] = e[2] /\ k[3] # e[3]
    /\ NamedTriples \ DOMAIN last.pre.RELATED_TO # {}

----------------------------------------------------------------------------
(* C32 *)

\* The (entityName, content) pairs a deleteObservations call names.
NamedPairs ==
    UNION {{<<x.entityName, c>> : c \in Range(x.observations)} :
              x \in Range(last.args)}

\* The observations that a named entity owns with a named content.
NamedObservations ==
    UNION {DOMAIN OwnedRows(last.pre, p[1], p[2]) : p \in NamedPairs}

\* C32: deleteObservations removes the observations that a named entity
\* owns with a named content, with their ownership links and their tag
\* links, so no named entity lists a named content afterwards; it changes
\* nothing else (a pair that matches nothing removes nothing) and raises no
\* error.
C32_DeleteObservations ==
    Returned("deleteObservations") =>
        /\ last.error = "none"
        /\ \A p \in NamedPairs : DOMAIN OwnedRows(db, p[1], p[2]) = {}
        /\ db = [last.pre EXCEPT
                    !.Observation = {o \in @ : o.id \notin NamedObservations},
                    !.HAS_OBSERVATION =
                        KeepEdges(@, {e \in DOMAIN @ : e[2] \notin NamedObservations}),
                    !.OBSERVATION_TAGGED_WITH =
                        KeepEdges(@, {e \in DOMAIN @ : e[1] \notin NamedObservations})]

\* A tagged observation was removed with its tag link, in a call that also
\* named a pair matching nothing.
C32_Witness ==
    /\ Returned("deleteObservations")
    /\ \E e \in DOMAIN last.pre.OBSERVATION_TAGGED_WITH : e[1] \in NamedObservations
    /\ \E p \in NamedPairs : DOMAIN OwnedRows(last.pre, p[1], p[2]) = {}

----------------------------------------------------------------------------
(* Requests without an arguments object.  request.params.arguments is      *)
(* optional: a client may leave it out.                                    *)

\* case "..." of the handler's switch
ToolNames ==
    {"create_entities", "create_relations", "add_observations",
     "delete_entities", "delete_observations", "delete_relations",
     "read_graph", "search_nodes", "open_nodes", "create_tags", "tag_entity",
     "tag_observation", "get_entities_by_tag", "get_all_tags", "get_tag_usage",
     "remove_tags_from_entity"}

\* request.params.arguments when the client sent none
Undefined == "undefined"

\* if (!args) throw new Error(`No arguments provided for tool: ${name}`),
\* before the switch on the tool name: no method of the manager runs.
request_without_arguments ==
    /\ last = Idle
    /\ \E name \in ToolNames :
          last' = [op |-> name, args |-> Undefined, pre |-> db,
                   result |-> <<>>, error |-> "NoArguments"]
    /\ UNCHANGED <<db, items, proc, inflight>>

NextRequests ==
    \/ request_without_arguments
    \/ create_tags
    \/ read_graph
    \/ get_all_tags
    \/ get_tag_usage
    \/ Respond

SpecRequests == Init /\ [][NextRequests]_vars

----------------------------------------------------------------------------
(* C33 *)

\* The tools documented as needing no input.
NoInputTools == {"read_graph", "get_all_tags", "get_tag_usage"}

\* What the tool returns on the stored graph.
NoInputResults(name) ==
    CASE name = "read_graph" -> {readGraph(db)}
      [] name = "get_all_tags" -> {getAllTags(db)}
      [] name = "get_tag_usage" -> getTagUsage(db)

\* C33: read_graph, get_all_tags and get_tag_usage are served when the
\* request carries no arguments object: the call returns the tool's result
\* and not an error.
C33_NoInputToolsServed ==
    (last # Idle /\ last.args = Undefined /\ last.op \in NoInputTools) =>
        /\ last.error = "none"
        /\ last.result \in NoInputResults(last.op)

----------------------------------------------------------------------------
(* C34 *)

\* A statement of createEntities failed on item i after the existence
\* check and the CREATE of the Entity node of that item had completed.
Interrupted(i) ==
    /\ last # Idle
    /\ last.op = "createEntities"
    /\ i \in DOMAIN last.args
    /\ Failed(<<i>>)
    /\ last.stmt >= 2

\* S holds exactly the first elements of list, up to some position.
IsPrefixOf(S, list) == \E n \in 0..Len(list) : S = Range(SubSeq(list, 1, n))

\* The entity at position k was created by this call, with everything it
\* lists.
FullyCreated(k) ==
    LET e == last.args[k] IN
    /\ e.name \in LiveNames(db)
    /\ (/\ e.name \notin LiveNames(last.pre)
        /\ \A j \in 1..(k - 1) : last.args[j].name # e.name)
           => /\ ObservationsOf(db, e.name) = Range(e.observations)
              /\ TagsOf(db, e.name) = Range(e.tags)

\* C34: no rollback in createEntities: when a statement fails after the
\* Entity node was created, the call raises the error and the graph keeps
\* the entity with only the observations and tags linked so far; the
\* entities created earlier in the call remain, complete.
C34_NoRollback ==
    \A i \in 1..MaxLen :
        Interrupted(i) =>
            LET e == last.args[i] IN
            /\ last.error = "StorageFault"
            /\ e.name \in LiveNames(db) \ LiveNames(last.pre)
            /\ IsPrefixOf(ObservationsOf(db, e.name), e.observations)
            /\ IsPrefixOf(TagsOf(db, e.name), e.tags)
            /\ TagsOf(db, e.name) # {} =>
                   ObservationsOf(db, e.name) = Range(e.observations)
            /\ \A k \in 1..(i - 1) : FullyCreated(k)

\* The second entity of a call was interrupted with some of its
\* observations linked and others not, after the first was created.
C34_Witness ==
    /\ Interrupted(2)
    /\ last.args[1].name \notin LiveNames(last.pre)
    /\ ObservationsOf(db, last.args[2].name) # {}
    /\ ObservationsOf(db, last.args[2].name) # Range(last.args[2].observations)

----------------------------------------------------------------------------
(* C36 *)

\* The call is the retry of a createEntities call that failed on entity
\* position i after the Entity node of that item had been stored.
RetryAfterPartial(i) ==
    /\ last # Idle
    /\ "retryOf" \in DOMAIN last
    /\ last.retryOf.item = <<i>>
    /\ last.retryOf.stmt >= 2

\* The links from entity name to its observations and to its tags.
LinksOf(d, name) ==
    [obs  |-> [e \in {x \in DOMAIN d.HAS_OBSERVATION : x[1] = name}
                  |-> d.HAS_OBSERVATION[e]],
     tags |-> [e \in {x \in DOMAIN d.ENTITY_TAGGED_WITH : x[1] = name}
                  |-> d.ENTITY_TAGGED_WITH[e]]]

\* C36: a partially created entity is never completed by retrying: the
\* retry treats the entity as a duplicate, returns a list without it and
\* adds none of its missing observations or tag links.
C36_RetryDoesNotComplete ==
    \A i \in 1..MaxLen :
        RetryAfterPartial(i) =>
            LET e == last.args[i] IN
            /\ last.error = "none"
            /\ \A k \in DOMAIN last.result : last.result[k].name # e.name
            /\ LinksOf(db, e.name) = LinksOf(last.pre, e.name)
            /\ MatchEntity(db, e.name) = MatchEntity(last.pre, e.name)

\* The retried entity lacks an observation or a tag that the request lists.
C36_Witness ==
    \E i \in 1..MaxLen :
        /\ RetryAfterPartial(i)
        /\ \/ ObservationsOf(db, last.args[i].name)
                  # Range(last.args[i].observations)
           \/ TagsOf(db, last.args[i].name) # Range(last.args[i].tags)

----------------------------------------------------------------------------
(* C35 *)

\* createEntities has created entity X again right after deleteEntities
\* deleted the live entity of that name.
Recreated(X) ==
    /\ last # Idle
    /\ "after" \in DOMAIN last
    /\ last.args[1].name = X
    /\ X \in LiveNames(last.after.pre)

\* C35: entity lifecycle absent -> live -> absent -> live: after
\* deleteEntities([X]) and createEntities with a new X, readGraph shows X
\* with exactly the new entityType, observations and tags and with no
\* relation, and no observation of the deleted X is linked to X again.
C35_DeletedStaysDeleted ==
    \A X \in Names :
        Recreated(X) =>
            LET e == last.args[1] IN
            /\ last.error = "none"
            /\ {x \in readGraph(db).entities : x.name = X} =
                   {[name |-> X, entityType |-> e.entityType,
                     observations |-> Range(e.observations),
                     tags |-> Range(e.tags)]}
            /\ \A r \in DOMAIN readGraph(db).relations : r.from # X /\ r.to # X
            /\ \A o \in DOMAIN db.HAS_OBSERVATION :
                   o[1] = X => o \notin DOMAIN last.after.pre.HAS_OBSERVATION

----------------------------------------------------------------------------
(* C37 *)

\* Two createRelations handlers have both run to their end, each having
\* found the triple not stored and created it.
BothCreated(triple) ==
    \E i, j \in DOMAIN inflight.tasks :
        /\ i # j
        /\ \A k \in {i, j} :
              /\ inflight.tasks[k].op = "createRelations"
              /\ inflight.tasks[k].pc = "done"
              /\ \E r \in Range(inflight.tasks[k].result) :
                    <<r.from, r.to, r.relationType>> = triple

\* C37: relation uniqueness under overlap: when the existence checks and
\* the creates of createRelations requests interleave, the graph still
\* holds at most one RELATED_TO edge for a triple.
C37_UniqueUnderOverlap ==
    \A e \in DOMAIN db.RELATED_TO :
        BothCreated(e) => db.RELATED_TO[e] <= 1

----------------------------------------------------------------------------
(* C38 *)

\* The tag names that getAllTags lists on graph d.
ListedTags(d) == {t.name : t \in Range(getAllTags(d))}

\* C38: tags are never removed: every tag name that getAllTags listed
\* before a call is listed after it, whatever the call (deleteEntities,
\* deleteObservations, deleteRelations and removeTagsFromEntity included).
C38_TagsNeverRemoved ==
    last # Idle => ListedTags(last.pre) \subseteq ListedTags(db)

\* A delete call removed the last link of a tag, which is still listed.
C38_Witness ==
    /\ last # Idle
    /\ last.op \in DeletePath
    /\ \E t \in ListedTags(db) :
          /\ \E e \in DOMAIN last.pre.ENTITY_TAGGED_WITH \cup
                       DOMAIN last.pre.OBSERVATION_TAGGED_WITH : e[2] = t
          /\ \A e \in DOMAIN db.ENTITY_TAGGED_WITH \cup
                       DOMAIN db.OBSERVATION_TAGGED_WITH : e[2] # t

----------------------------------------------------------------------------
(* C39 *)

\* The methods that create a tag as a side effect of linking it.
ImplicitTagging == {"createEntities", "tagEntity", "tagObservation"}

\* C39: tag metadata is first-writer-wins: a tag created implicitly by
\* createEntities, tagEntity or tagObservation has no category and no
\* description in getAllTags; a createTags call that names an existing tag
\* skips it; and no call changes what getAllTags reports for a tag that
\* exists.
C39_FirstWriterWins ==
    last # Idle =>
        /\ Range(getAllTags(last.pre)) \subseteq Range(getAllTags(db))
        /\ last.op \in ImplicitTagging =>
               \A t \in Range(getAllTags(db)) \ Range(getAllTags(last.pre)) :
                   t.category = <<>> /\ t.description = <<>>
        /\ last.op = "createTags" =>
               \A k \in DOMAIN last.result :
                   last.result[k].name \notin ListedTags(last.pre)

\* createTags named, with a category, a tag that is stored without one and
\* is linked to an entity.
C39_Witness ==
    /\ Returned("createTags")
    /\ \E k \in DOMAIN last.args :
          /\ last.args[k].category # <<>>
          /\ \E t \in Range(getAllTags(db)) :
                /\ t.name = last.args[k].name
                /\ t.category = <<>>
                /\ t.name \in ListedTags(last.pre)
                /\ \E e \in DOMAIN last.pre.ENTITY_TAGGED_WITH : e[2] = t.name

====
